---------------------------- MODULE Spec2Model ----------------------------
(***************************************************************************)
(* Model of the media-toolkit backend: the output-name allocator           *)
(* (getUniqueFilename), the image batch orchestrator (processImages with   *)
(* processWithImageMagick and optimizeSVGs) and the single-video entry     *)
(* point (processVideo behind POST /video).                                *)
(*                                                                         *)
(* File names are sequences of tokens (single characters, and the format   *)
(* after the last dot), so that two different (base, counter) pairs that   *)
(* spell the same name, such as ("a", 1) and ("a_1", none), are the same   *)
(* file in the directory.                                                  *)
(***************************************************************************)
EXTENDS Integers, Sequences, FiniteSets, TLC

VARIABLES
    dir,            \* the shared uploads directory: the set of names in it
    \* ---- getUniqueFilename, one call at a time (imageProcessor.js copy)
    gufPc,          \* "idle" | "loop" | "returned"
    gufBase,        \* baseName argument
    gufFormat,      \* format argument
    gufFilename,    \* local `filename`
    gufCounter,     \* local `counter`
    gufProbes,      \* paths given to fs.access by the running call, in order
    gufDirAtCall,   \* the directory as it was when the running call began
    gufReturns,     \* names returned by the completed calls, in order
    \* ---- processImages
    files,          \* the uploaded batch (req.files), in input order
    formats,        \* options.formats
    useImageMagick, \* options.useImageMagick
    pc,             \* the loop processImages is in, or "idle"/"start"/"ret"/"done"
    step,           \* position inside the current file's try block
    rasterFiles,    \* local `rasterFiles` (grows with the fallback pushes)
    fileIdx,        \* index of the current file in the running loop's list
    fmtIdx,         \* index of the next format of the current file
    processedFiles, \* local `processedFiles` of the current file
    results,        \* local `results` (with the results spread into it)
    log,            \* encoder invocations, writes, deletions, pushes, in order
    probes,         \* number of isImageMagickAvailable() calls so far
    \* ---- POST /video and processVideo
    vFile,          \* req.file
    vOptions,       \* parsed options
    vPc,            \* position in the handler / processVideo
    vOutputFilename,
    vCommand,       \* the options given to ffmpeg
    vPromise,       \* "pending" | "resolved" | "rejected"
    vResult,        \* value the promise resolved with, or NoValue
    vResponse,      \* HTTP response of the route, or NoValue
    \* ---- safeUnlink, one call, step by step
    suCopy,         \* which copy runs: "cleanup" (fileCleanup.js) | "orchestrator"
    suCodes,        \* what fs.unlink answers on attempt 1, 2, ...
    suI,            \* loop variable `i`
    suPc,           \* "try" | "wait" | "done"
    suAttempts,     \* fs.unlink calls made so far
    suDelays,       \* the setTimeout delays waited so far, in order
    suOutcome,      \* "pending" | "true" | "false" | "undefined" | "throws"
    \* ---- the cleanup scheduler and the uploads directory it sweeps
    upExists,       \* the uploads directory exists
    meta,           \* slot -> [kind, mtime, lock] of the entry named by the slot
    clock,          \* Date.now(), in ms
    disableLimits,  \* DISABLE_LIMITS === 'true'
    schedPc,        \* "boot" | "wiped" | "running" | "stopped"
    timerArmed,     \* the interval timer is set
    swOp,           \* "none" | "sweep" (cleanupExpiredFiles) | "wipe" (clearAllUploads)
    swPc,           \* "idle" | "access" | "loop"
    swNow,          \* `now`, taken once per sweep
    swList,         \* `files` of readdir, as slots
    swIdx,          \* position of the for-of loop in swList
    swCleaned,      \* `cleaned` / `cleared`
    swErrors,       \* `errors`
    swResult,       \* what the last call returned
    swLog,          \* safeUnlink calls of the current or last call, in order
    \* ---- two requests of the one server process, interleaved
    rqKind,         \* request -> "image" | "video"
    rqFault,        \* request -> "none" | "corrupt"
    rqPc,           \* request -> "start" | "allocated" | "written" | "done"
    rqName,         \* request -> the output filename it allocated
    rqOwner,        \* filename -> the request whose artifact it holds
    \* ---- POST /archive and createArchive
    arFiles,        \* req.body.files
    arFaults,       \* [download, unlink]: res.download fails, fs.unlink fails
    arPc,           \* "route" | "open" | "loop" | "settle" | "download" | "cleanup" | "done"
    arIdx,          \* position of the for-of loop in arFiles
    arEntries,      \* names given to archive.file, in order
    arSkipped,      \* names passed over, in order
    arZip,          \* "none" | "open" | "finalized": the archive being written
    arPromise,      \* "pending" | "resolved" | "rejected" with its message
    arResponse,     \* what the route answered
    arUnlinked,     \* "no" | "deleted" | "failed": fs.unlink(archivePath)
    \* ---- the entry of POST /images and POST /video
    enBody,         \* req.body.options: "absent" | "valid" | "malformed" | "null"
    enResponse,     \* what POST /images answered
    \* ---- the savings of one ArtifactRecord
    svPipeline,     \* the loop that makes the record
    svOriginal,     \* originalSize, bytes
    svProcessed,    \* processedSize / optimizedSize, bytes
    svSavings,      \* `savings` in hundredths of a percent ('12.50' is 1250)
    svPc,           \* "stat" | "pushed"
    \* ---- the file queue of the UI (App.jsx), current mode
    qFiles,         \* files[mode]: the queued File objects, in order
    qOptions,       \* fileOptions[mode]: index -> custom options
    qStored,        \* fileOptions[mode] of the session kept in localStorage
    qDisableLimits, \* config.disableLimits as fetched on mount
    qAdded,         \* how many File objects were added so far
    qOp,            \* the handler that ran last, and its index argument
    qBefore,        \* files[mode] and fileOptions[mode] before that handler
    qSent           \* the options handleProcess sent for each file, in order

gufVars == <<gufPc, gufBase, gufFormat, gufFilename, gufCounter, gufProbes,
             gufDirAtCall, gufReturns>>
imgVars == <<files, formats, useImageMagick, pc, step, rasterFiles, fileIdx,
             fmtIdx, processedFiles, results, log, probes>>
vidVars == <<vFile, vOptions, vPc, vOutputFilename, vCommand, vPromise,
             vResult, vResponse>>
delVars == <<suCopy, suCodes, suI, suPc, suAttempts, suDelays, suOutcome>>
\* the components added after the three above
sweepVars == <<upExists, meta, clock, disableLimits, schedPc, timerArmed, swOp,
               swPc, swNow, swList, swIdx, swCleaned, swErrors, swResult,
               swLog>>
raceVars == <<rqKind, rqFault, rqPc, rqName, rqOwner>>
archVars == <<arFiles, arFaults, arPc, arIdx, arEntries, arSkipped, arZip,
              arPromise, arResponse, arUnlinked>>
entryVars == <<enBody, enResponse>>
savVars == <<svPipeline, svOriginal, svProcessed, svSavings, svPc>>
queVars == <<qFiles, qOptions, qStored, qDisableLimits, qAdded, qOp, qBefore,
             qSent>>
sysVars == <<delVars, sweepVars, raceVars, archVars, entryVars, savVars,
             queVars>>
vars == <<dir, gufVars, imgVars, vidVars, sysVars>>

NoValue == <<"none">>

(***************************************************************************)
(* Bounds                                                                  *)
(***************************************************************************)
\* largest counter suffix of a name already present when the allocator runs
MaxSuffix == 2
\* largest batch
MaxFiles == 2
\* largest number parseInt reads from the bitrate hint
MaxBitrate == 6

(***************************************************************************)
(* Strings                                                                 *)
(***************************************************************************)
Digits == <<"0", "1", "2", "3", "4", "5", "6", "7", "8", "9">>

\* decimal rendering of a template-literal number, 0..99
NumStr(n) ==
    IF n < 10 THEN <<Digits[n + 1]>>
    ELSE <<Digits[(n \div 10) + 1], Digits[(n % 10) + 1]>>

\* `${baseName}.${format}`
PlainName(baseName, format) == baseName \o <<".", format>>

\* a plausible slip: the counter is incremented before the name is built
CounterNameSkips(baseName, counter, format) ==
    baseName \o <<"_">> \o NumStr(counter + 1) \o <<".", format>>

\* `${baseName}_${counter}.${format}`
\* a variant that forgets the counter: every retry probes `_1`
CounterNameStuck(baseName, counter, format) ==
    baseName \o <<"_">> \o NumStr(1) \o <<".", format>>

CounterName(baseName, counter, format) ==
    baseName \o <<"_">> \o NumStr(counter) \o <<".", format>>

(***************************************************************************)
(* Filesystem                                                              *)
(***************************************************************************)
\* fs.access(path) resolves iff the path exists
fsAccess(d, filePath) == filePath \in d

(***************************************************************************)
(* getUniqueFilename                                                       *)
(***************************************************************************)
\* a plausible slip: `if` instead of `while`, the name is checked once
GufProbesOnce(d, filePath, counter) == fsAccess(d, filePath) /\ counter = 1

\* the loop continues while fs.access(filePath) succeeds
GufKeepProbing(d, filePath, counter) == fsAccess(d, filePath)

RECURSIVE GufLoop(_, _, _, _, _)
GufLoop(d, baseName, format, filename, counter) ==
    IF GufKeepProbing(d, filename, counter)
    THEN GufLoop(d, baseName, format,
                 CounterName(baseName, counter, format), counter + 1)
    ELSE filename

\* the whole call, as the batch uses it between two of its own steps
getUniqueFilename(d, baseName, format) ==
    GufLoop(d, baseName, format, PlainName(baseName, format), 1)

GufBases == {<<"a">>, <<"a", "_", "1">>}
GufFormats == {"webp", "png"}

\* names that may already be in the directory when the allocator is called
GufUniverse ==
    {PlainName(b, f) : b \in GufBases, f \in GufFormats}
    \cup {CounterName(b, k, f) : b \in GufBases, k \in 1..MaxSuffix,
                                 f \in GufFormats}

(***************************************************************************)
(* Components at rest: each specification below runs one component and     *)
(* keeps the others in these states.                                       *)
(***************************************************************************)
GufIdle ==
    /\ gufPc = "idle"
    /\ gufBase = <<>>
    /\ gufFormat = ""
    /\ gufFilename = <<>>
    /\ gufCounter = 0
    /\ gufProbes = <<>>
    /\ gufDirAtCall = {}
    /\ gufReturns = <<>>

ImgIdle ==
    /\ files = <<>>
    /\ formats = <<>>
    /\ useImageMagick = FALSE
    /\ pc = "idle"
    /\ step = "stat"
    /\ rasterFiles = <<>>
    /\ fileIdx = 0
    /\ fmtIdx = 0
    /\ processedFiles = <<>>
    /\ results = <<>>
    /\ log = <<>>
    /\ probes = 0

VidIdle ==
    /\ vFile = NoValue
    /\ vOptions = NoValue
    /\ vPc = "idle"
    /\ vOutputFilename = NoValue
    /\ vCommand = NoValue
    /\ vPromise = "pending"
    /\ vResult = NoValue
    /\ vResponse = NoValue

DelIdle ==
    /\ suCopy = "cleanup"
    /\ suCodes = <<>>
    /\ suI = 0
    /\ suPc = "done"
    /\ suAttempts = 0
    /\ suDelays = <<>>
    /\ suOutcome = "pending"

\* { cleaned, errors } / { cleared, errors }, with the call that returned it
SweepResult(op, n, errs) == [op |-> op, cleaned |-> n, errors |-> errs]

NoResult == SweepResult("none", 0, 0)

SweepIdle ==
    /\ upExists = FALSE
    /\ meta = <<>>
    /\ clock = 0
    /\ disableLimits = FALSE
    /\ schedPc = "stopped"
    /\ timerArmed = FALSE
    /\ swOp = "none"
    /\ swPc = "idle"
    /\ swNow = 0
    /\ swList = <<>>
    /\ swIdx = 0
    /\ swCleaned = 0
    /\ swErrors = 0
    /\ swResult = NoResult
    /\ swLog = <<>>

RaceIdle ==
    /\ rqKind = <<>>
    /\ rqFault = <<>>
    /\ rqPc = <<>>
    /\ rqName = <<>>
    /\ rqOwner = <<>>

\* a settled or pending promise / an answer of the route
Outcome(state, message) == [state |-> state, message |-> message]

ArchIdle ==
    /\ arFiles = <<>>
    /\ arFaults = [download |-> FALSE, unlink |-> FALSE]
    /\ arPc = "done"
    /\ arIdx = 0
    /\ arEntries = <<>>
    /\ arSkipped = <<>>
    /\ arZip = "none"
    /\ arPromise = Outcome("pending", "")
    /\ arResponse = Outcome("none", "")
    /\ arUnlinked = "no"

\* a response: status 0 stands for none sent yet
Status(code) == [status |-> code, body |-> NoValue]

EntryIdle ==
    /\ enBody = "none"
    /\ enResponse = Status(0)

SavIdle ==
    /\ svPipeline = "none"
    /\ svOriginal = 0
    /\ svProcessed = 0
    /\ svSavings = 0
    /\ svPc = "idle"

\* fileOptions[mode] with no entry
NoOptions == [k \in {} |-> "none"]

QueIdle ==
    /\ qFiles = <<>>
    /\ qOptions = NoOptions
    /\ qStored = NoOptions
    /\ qDisableLimits = FALSE
    /\ qAdded = 0
    /\ qOp = [op |-> "none", index |-> 0]
    /\ qBefore = [files |-> <<>>, options |-> NoOptions]
    /\ qSent = <<>>

SysIdle ==
    /\ DelIdle
    /\ SweepIdle
    /\ RaceIdle
    /\ ArchIdle
    /\ EntryIdle
    /\ SavIdle
    /\ QueIdle

(***************************************************************************)
(* Specification SpecGUF: getUniqueFilename called twice in sequence on    *)
(* the same (dir, baseName, format), the first returned name being created *)
(* in between.  No other writer touches the directory (the sequential      *)
(* model of the batch).                                                    *)
(***************************************************************************)
GufInit ==
    /\ dir \in SUBSET GufUniverse
    /\ gufBase \in GufBases
    /\ gufFormat \in GufFormats
    /\ gufPc = "idle"
    /\ gufFilename = <<>>
    /\ gufCounter = 0
    /\ gufProbes = <<>>
    /\ gufDirAtCall = {}
    /\ gufReturns = <<>>
    /\ ImgIdle
    /\ VidIdle
    /\ SysIdle

\* entry: filename = `${baseName}.${format}`, counter = 1
GufCall ==
    /\ gufPc = "idle"
    /\ Len(gufReturns) < 2
    /\ gufFilename' = PlainName(gufBase, gufFormat)
    /\ gufCounter' = 1
    /\ gufProbes' = <<>>
    /\ gufDirAtCall' = dir
    /\ gufPc' = "loop"
    /\ UNCHANGED <<dir, gufBase, gufFormat, gufReturns, imgVars, vidVars, sysVars>>

\* fs.access(filePath) succeeds: the file exists, try with the counter
GufProbeExists ==
    /\ gufPc = "loop"
    /\ GufKeepProbing(dir, gufFilename, gufCounter)
    /\ gufProbes' = Append(gufProbes, gufFilename)
    /\ gufFilename' = CounterName(gufBase, gufCounter, gufFormat)
    /\ gufCounter' = gufCounter + 1
    /\ UNCHANGED <<dir, gufPc, gufBase, gufFormat, gufDirAtCall, gufReturns,
                   imgVars, vidVars, sysVars>>

\* fs.access(filePath) throws: break, return filename
GufProbeFree ==
    /\ gufPc = "loop"
    /\ ~GufKeepProbing(dir, gufFilename, gufCounter)
    /\ gufProbes' = Append(gufProbes, gufFilename)
    /\ gufReturns' = Append(gufReturns, gufFilename)
    /\ gufPc' = "returned"
    /\ UNCHANGED <<dir, gufBase, gufFormat, gufFilename, gufCounter,
                   gufDirAtCall, imgVars, vidVars, sysVars>>

\* the caller writes its output under the returned name
GufCreate ==
    /\ gufPc = "returned"
    /\ dir' = dir \cup {gufReturns[Len(gufReturns)]}
    /\ gufPc' = "idle"
    /\ UNCHANGED <<gufBase, gufFormat, gufFilename, gufCounter, gufProbes,
                   gufDirAtCall, gufReturns, imgVars, vidVars, sysVars>>

GufNext == GufCall \/ GufProbeExists \/ GufProbeFree \/ GufCreate

SpecGUF == GufInit /\ [][GufNext]_vars

\* The loop of getUniqueFilename is a chain of awaited promises: a pending
\* fs.access always settles and its continuation always runs.
SpecGUFLive == SpecGUF /\ WF_vars(GufProbeExists \/ GufProbeFree)

\* the probe sequence of the documentation: base.ext, base_1.ext, ...
C10_Candidate(k) ==
    IF k = 0 THEN gufBase \o <<".", gufFormat>>
    ELSE gufBase \o <<"_">> \o NumStr(k) \o <<".", gufFormat>>

\* C9: getUniqueFilename never returns a name that exists in the directory
\* at call time, and two calls in sequence, with the first returned name
\* created in between, return two distinct names.
C9_ReturnsUnusedDistinct ==
    /\ gufPc = "returned" =>
           gufReturns[Len(gufReturns)] \notin gufDirAtCall
    /\ Len(gufReturns) = 2 => gufReturns[1] # gufReturns[2]

\* C9 witness: the second call has returned, and both calls had to step
\* over names that were already there.
C9_Witness ==
    /\ gufPc = "returned"
    /\ Len(gufReturns) = 2
    /\ Len(gufProbes) >= 3
    /\ gufReturns[1] \in gufDirAtCall

\* C10: a call probes base.ext, base_1.ext, base_2.ext, ... in that order
\* and returns the first candidate of that sequence absent from the
\* directory: every candidate before the returned one exists.
C10_FirstUnusedCandidate ==
    /\ gufPc \in {"loop", "returned"} =>
           \A i \in 1..Len(gufProbes) : gufProbes[i] = C10_Candidate(i - 1)
    /\ gufPc = "returned" =>
           LET k == Len(gufProbes) - 1 IN
           /\ gufReturns[Len(gufReturns)] = C10_Candidate(k)
           /\ C10_Candidate(k) \notin gufDirAtCall
           /\ \A j \in 0..(k - 1) : C10_Candidate(j) \in gufDirAtCall

\* C10 witness: a call returned base_2.ext after finding base.ext and
\* base_1.ext taken.
C10_Witness ==
    /\ gufPc = "returned"
    /\ Len(gufProbes) = 3
    /\ gufReturns[Len(gufReturns)] = C10_Candidate(2)

\* C11: getUniqueFilename terminates for every finite directory content and
\* has no error outcome: a call that entered the loop probes at most one
\* name more than the directory held at call time, and always reaches the
\* return of a filename.
C11_AlwaysReturns ==
    /\ [](Len(gufProbes) <= Cardinality(gufDirAtCall) + 1)
    /\ (gufPc = "loop") ~> (gufPc = "returned")

\* C11 witness: a call returned after stepping over the plain name and
\* every counter name the directory can hold.
C11_Witness ==
    /\ gufPc = "returned"
    /\ Len(gufProbes) = MaxSuffix + 2

(***************************************************************************)
(* processImages: inputs                                                   *)
(***************************************************************************)
\* a plausible slip: the extension is compared as written
KeepsCase(ext) == ext

\* String.prototype.toLowerCase on the extensions the model uploads
ToLowerCase(ext) ==
    CASE ext = ".SVG" -> ".svg"
      [] ext = ".PNG" -> ".png"
      [] ext = ".TIF" -> ".tif"
      [] OTHER -> ext

\* original names of the uploads: base name and extension as written
ImageNames ==
    { [base |-> <<"a">>, ext |-> ".svg"],
      [base |-> <<"a">>, ext |-> ".PNG"],
      [base |-> <<"a">>, ext |-> ".tif"] }

\* what goes wrong with an upload:
\*   missing  the stored source is not on disk (fs.stat throws ENOENT)
\*   corrupt  every encoder invocation on the source throws
\*   second   the second encoder invocation on the source throws
\*   busy     the source stays locked: every fs.unlink throws EBUSY
\*   denied   the source cannot be deleted: fs.unlink throws EACCES
Faults == {"none", "missing", "corrupt", "second", "busy", "denied"}

\* multer's filename: fieldname-<unique suffix><extname(originalname)>
StoragePath(i, ext) == <<"files", "-">> \o NumStr(i) \o <<ext>>

FormatChoices ==
    { <<>>, <<"webp">>, <<"svg">>, <<"webp", "svg">>, <<"webp", "png">>,
      <<"gif">> }

Batches ==
    UNION { [1..n -> ImageNames \X Faults] : n \in 1..MaxFiles }

Upload(i, choice) ==
    [ id |-> i,
      originalname |-> choice[1],
      path |-> StoragePath(i, choice[1].ext),
      fault |-> choice[2] ]

(***************************************************************************)
(* processImages: routing                                                  *)
(***************************************************************************)
IMAGEMAGICK_PREFERRED_FORMATS ==
    {".tiff", ".tif", ".psd", ".eps", ".ai", ".pdf", ".heic", ".heif"}

shouldUseImageMagick(originalname) ==
    ToLowerCase(originalname.ext) \in IMAGEMAGICK_PREFERRED_FORMATS

IsSvg(f) == ToLowerCase(f.originalname.ext) = ".svg"

svgFiles == SelectSeq(files, IsSvg)

IsImageMagickFile(f) == shouldUseImageMagick(f.originalname)

imageMagickFiles ==
    IF useImageMagick THEN SelectSeq(files, IsImageMagickFile) ELSE <<>>

IsRasterFile(f) ==
    /\ ~IsSvg(f)
    /\ (IF useImageMagick THEN ~shouldUseImageMagick(f.originalname) ELSE TRUE)

SharpRasterFormats == {"webp", "avif", "jpg", "jpeg", "png"}

IsSharpRasterFormat(fmt) == fmt \in SharpRasterFormats

IsNotSvgFormat(fmt) == fmt # "svg"

SeqToSet(q) == {q[i] : i \in 1..Len(q)}

hasRasterFormats == \E fmt \in SeqToSet(formats) : IsSharpRasterFormat(fmt)

hasSvgFormat == "svg" \in SeqToSet(formats)

\* a plausible slip: the loops forget to filter the requested formats
PhaseFormatsUnfiltered(phase) == formats

\* the formats the loop of a phase fans out to
PhaseFormats(phase) ==
    CASE phase = "svgRaster" -> SelectSeq(formats, IsSharpRasterFormat)
      [] phase = "im" -> formats
      [] phase = "raster" -> SelectSeq(formats, IsNotSvgFormat)
      [] OTHER -> <<"svg">>

\* the list the loop of a phase iterates over, rf being `rasterFiles`
PhaseList(phase, rf) ==
    CASE phase = "svgRaster" -> svgFiles
      [] phase = "svgOpt" -> svgFiles
      [] phase = "im" -> imageMagickFiles
      [] phase = "raster" -> rf
      [] OTHER -> <<>>

\* control: <<pc, fileIdx>> on entering each part of processImages
EnterRaster(rf) == IF Len(rf) > 0 THEN <<"raster", 1>> ELSE <<"ret", 0>>

EnterIm(rf) ==
    IF Len(imageMagickFiles) > 0 THEN <<"imProbe", 0>> ELSE EnterRaster(rf)

EnterOpt(rf) ==
    IF Len(svgFiles) > 0 /\ hasSvgFormat THEN <<"svgOpt", 1>> ELSE EnterIm(rf)

EnterSvg(rf) ==
    IF Len(svgFiles) > 0 /\ hasRasterFormats THEN <<"svgRaster", 1>>
    ELSE EnterOpt(rf)

AfterPhase(phase, rf) ==
    CASE phase = "svgRaster" -> EnterOpt(rf)
      [] phase = "svgOpt" -> EnterIm(rf)
      [] phase = "im" -> EnterRaster(rf)
      [] OTHER -> <<"ret", 0>>

\* the for-of loop moves to the next file, or the loop ends
AfterFile(phase, i, rf) ==
    IF i < Len(PhaseList(phase, rf)) THEN <<phase, i + 1>>
    ELSE AfterPhase(phase, rf)

\* a plausible slip: the error leaves the loop instead of the iteration
AbortOnError(phase, i, rf) == AfterPhase(phase, rf)

\* the catch block is inside the loop body: the loop goes on
AfterError(phase, i, rf) == AfterFile(phase, i, rf)

FirstStep(phase) == IF phase = "svgOpt" THEN "read" ELSE "stat"

(***************************************************************************)
(* processImages: filesystem, encoders, safeUnlink                         *)
(***************************************************************************)
\* retries = 3
Retries == 3

\* what fs.unlink(file.path) answers
fsUnlinkError(d, f) ==
    IF f.path \notin d THEN "ENOENT"
    ELSE IF f.fault = "busy" THEN "EBUSY"
    ELSE IF f.fault = "denied" THEN "EACCES"
    ELSE "ok"

\* safeUnlink of imageProcessor.js, imageMagickProcessor.js, svgProcessor.js:
\* attempt i of `retries`, the unlink answering `code` each time
RECURSIVE SafeUnlinkFrom(_, _, _)
SafeUnlinkFrom(i, retries, code) ==
    IF i >= retries THEN "gaveup"
    ELSE IF code = "ok" THEN "deleted"
    ELSE IF code \in {"EPERM", "EBUSY"}
         THEN SafeUnlinkFrom(i + 1, retries, code)
    ELSE "throws"

\* a variant that raises as soon as an unlink fails
safeUnlinkRaises(d, f) ==
    IF fsUnlinkError(d, f) = "ok" THEN "deleted" ELSE "throws"

safeUnlink(d, f) == SafeUnlinkFrom(0, Retries, fsUnlinkError(d, f))

Event(kind, f, fmt, phase, ok) ==
    [ev |-> kind, id |-> f.id, fmt |-> fmt, by |-> phase, ok |-> ok]

EncodesOf(f, lg) == {k \in 1..Len(lg) : lg[k].ev = "encode" /\ lg[k].id = f.id}

\* the encoder (sharp, convert or svgo) throws on this invocation
EncoderFails(f, lg) ==
    \/ f.fault = "corrupt"
    \/ f.fault = "second" /\ Cardinality(EncodesOf(f, lg)) = 1

\* { name, status: 'error', error }; src (the upload it was made for) is
\* bookkeeping of the model, not a field of the record
ErrorResult(f, message) ==
    [ name |-> f.originalname, status |-> "error", processedFiles |-> NoValue,
      error |-> message, src |-> f.id ]

\* { name, originalSize, processedFiles, status: 'success' }
SuccessResult(f, produced) ==
    [ name |-> f.originalname, status |-> "success",
      processedFiles |-> produced, error |-> NoValue, src |-> f.id ]

imgConst == <<files, formats, useImageMagick>>

Goto(target) ==
    /\ pc' = target[1]
    /\ fileIdx' = target[2]
    /\ step' = FirstStep(target[1])
    /\ fmtIdx' = 1
    /\ processedFiles' = <<>>

\* catch (error) { results.push({ name, status: 'error', error }) }
Catch(phase, f, message, before) ==
    /\ results' = Append(results, ErrorResult(f, message))
    /\ log' = log \o before \o <<Event("push", f, "", phase, FALSE)>>
    /\ Goto(AfterError(phase, fileIdx, rasterFiles))
    /\ UNCHANGED dir

(***************************************************************************)
(* processImages: the steps of one file in the vector-to-raster loop, the  *)
(* ImageMagick loop and the sharp loop                                     *)
(***************************************************************************)
\* const originalSize = (await fs.stat(file.path)).size
StatStep(phase) ==
    /\ pc = phase
    /\ step = "stat"
    /\ LET f == PhaseList(phase, rasterFiles)[fileIdx] IN
       IF ~fsAccess(dir, f.path)
       THEN Catch(phase, f, "ENOENT", <<>>)
       ELSE /\ step' = IF Len(PhaseFormats(phase)) = 0 THEN "finish"
                       ELSE "format"
            /\ fmtIdx' = 1
            /\ processedFiles' = <<>>
            /\ UNCHANGED <<dir, pc, fileIdx, results, log>>
    /\ UNCHANGED <<rasterFiles, probes, imgConst, gufVars, vidVars, sysVars>>

\* one iteration of `for (const format of ...)`: allocate the name, run the
\* encoder, stat the output, push the ArtifactRecord
FormatStep(phase) ==
    /\ pc = phase
    /\ step = "format"
    /\ LET f == PhaseList(phase, rasterFiles)[fileIdx]
           fmt == PhaseFormats(phase)[fmtIdx]
           outputFilename == getUniqueFilename(dir, f.originalname.base, fmt)
       IN
       IF EncoderFails(f, log)
       THEN Catch(phase, f, "encoder",
                  <<Event("encode", f, fmt, phase, FALSE)>>)
       ELSE /\ dir' = dir \cup {outputFilename}
            /\ processedFiles' =
                   Append(processedFiles,
                          [format |-> fmt, filename |-> outputFilename])
            /\ log' = Append(log, Event("encode", f, fmt, phase, TRUE))
            /\ IF fmtIdx < Len(PhaseFormats(phase))
               THEN fmtIdx' = fmtIdx + 1 /\ step' = "format"
               ELSE fmtIdx' = fmtIdx /\ step' = "finish"
            /\ UNCHANGED <<pc, fileIdx, results>>
    /\ UNCHANGED <<rasterFiles, probes, imgConst, gufVars, vidVars, sysVars>>

\* a plausible slip: the vector-to-raster pass always deletes the source
PassAlwaysUnlinks(phase) == TRUE

\* `if (!hasSvgFormat)` guards the unlink of the vector-to-raster pass only
PassUnlinksSource(phase) == phase = "svgRaster" => ~hasSvgFormat

\* the directory after safeUnlink(file.path) ended with `outcome`
DirAfterUnlink(d, f, outcome) ==
    IF outcome = "deleted" THEN d \ {f.path} ELSE d

\* after the format loop: safeUnlink(file.path), results.push({... 'success'})
FinishStep(phase) ==
    /\ pc = phase
    /\ step = "finish"
    /\ LET f == PhaseList(phase, rasterFiles)[fileIdx]
           outcome == IF PassUnlinksSource(phase) THEN safeUnlink(dir, f)
                      ELSE "skipped"
           pushes == phase = "svgRaster" => Len(processedFiles) > 0
           unlinked == IF outcome = "skipped" THEN <<>>
                       ELSE <<Event("unlink", f, "", phase,
                                    outcome = "deleted")>>
       IN
       IF outcome = "throws"
       THEN Catch(phase, f, "unlink", unlinked)
       ELSE /\ dir' = DirAfterUnlink(dir, f, outcome)
            /\ results' = IF pushes
                          THEN Append(results, SuccessResult(f, processedFiles))
                          ELSE results
            /\ log' = log \o unlinked \o
                      (IF pushes THEN <<Event("push", f, "", phase, TRUE)>>
                       ELSE <<>>)
            /\ Goto(AfterFile(phase, fileIdx, rasterFiles))
    /\ UNCHANGED <<rasterFiles, probes, imgConst, gufVars, vidVars, sysVars>>

SvgRasterStat == StatStep("svgRaster")
SvgRasterFormat == FormatStep("svgRaster")
SvgRasterFinish == FinishStep("svgRaster")
ImStat == StatStep("im")
ImFormat == FormatStep("im")
ImFinish == FinishStep("im")
RasterStat == StatStep("raster")
RasterFormat == FormatStep("raster")
RasterFinish == FinishStep("raster")

(***************************************************************************)
(* optimizeSVGs: the steps of one file                                     *)
(***************************************************************************)
\* fs.stat, fs.readFile, optimize(svgContent, svgoConfig)
OptRead ==
    /\ pc = "svgOpt"
    /\ step = "read"
    /\ LET f == svgFiles[fileIdx] IN
       IF ~fsAccess(dir, f.path)
       THEN Catch("svgOpt", f, "ENOENT", <<>>)
       ELSE IF EncoderFails(f, log)
       THEN Catch("svgOpt", f, "encoder",
                  <<Event("encode", f, "svg", "svgOpt", FALSE)>>)
       ELSE /\ log' = Append(log, Event("encode", f, "svg", "svgOpt", TRUE))
            /\ step' = "write"
            /\ UNCHANGED <<dir, pc, fileIdx, fmtIdx, processedFiles, results>>
    /\ UNCHANGED <<rasterFiles, probes, imgConst, gufVars, vidVars, sysVars>>

\* getUniqueFilename, fs.writeFile(outputPath, result.data), fs.stat
OptWrite ==
    /\ pc = "svgOpt"
    /\ step = "write"
    /\ LET f == svgFiles[fileIdx]
           outputFilename == getUniqueFilename(dir, f.originalname.base, "svg")
       IN
       /\ dir' = dir \cup {outputFilename}
       /\ processedFiles' = <<[format |-> "svg", filename |-> outputFilename]>>
       /\ log' = Append(log, Event("write", f, "svg", "svgOpt", TRUE))
       /\ step' = "finish"
    /\ UNCHANGED <<pc, fileIdx, fmtIdx, results, rasterFiles, probes,
                   imgConst, gufVars, vidVars, sysVars>>

\* if (file.path !== outputPath) safeUnlink(file.path); results.push(...)
OptFinish ==
    /\ pc = "svgOpt"
    /\ step = "finish"
    /\ LET f == svgFiles[fileIdx]
           outcome == IF f.path # processedFiles[1].filename
                      THEN safeUnlink(dir, f) ELSE "skipped"
           unlinked == IF outcome = "skipped" THEN <<>>
                       ELSE <<Event("unlink", f, "", "svgOpt",
                                    outcome = "deleted")>>
       IN
       IF outcome = "throws"
       THEN Catch("svgOpt", f, "unlink", unlinked)
       ELSE /\ dir' = DirAfterUnlink(dir, f, outcome)
            /\ results' = Append(results, SuccessResult(f, processedFiles))
            /\ log' = log \o unlinked \o
                      <<Event("push", f, "", "svgOpt", TRUE)>>
            /\ Goto(AfterFile("svgOpt", fileIdx, rasterFiles))
    /\ UNCHANGED <<rasterFiles, probes, imgConst, gufVars, vidVars, sysVars>>

(***************************************************************************)
(* processImages: control                                                  *)
(***************************************************************************)
\* the three filters, then the first loop that has something to do
ImgPartition ==
    /\ pc = "start"
    /\ rasterFiles' = SelectSeq(files, IsRasterFile)
    /\ Goto(EnterSvg(rasterFiles'))
    /\ UNCHANGED <<dir, results, log, probes, imgConst, gufVars, vidVars, sysVars>>

\* a plausible slip: the fallback goes on without handing the files over
FallBackDropsFiles ==
    /\ rasterFiles' = rasterFiles
    /\ Goto(EnterRaster(rasterFiles'))

\* rasterFiles.push(...imageMagickFiles)
FallBackToSharp ==
    /\ rasterFiles' = rasterFiles \o imageMagickFiles
    /\ Goto(EnterRaster(rasterFiles'))

\* const isAvailable = await isImageMagickAvailable()
ImProbe ==
    /\ pc = "imProbe"
    /\ probes' = probes + 1
    /\ \E isAvailable \in BOOLEAN :
          IF isAvailable
          THEN /\ pc' = "imCall"
               /\ UNCHANGED <<rasterFiles, fileIdx, step, fmtIdx,
                              processedFiles>>
          ELSE FallBackToSharp
    /\ UNCHANGED <<dir, results, log, imgConst, gufVars, vidVars, sysVars>>

\* processWithImageMagick probes again and throws when convert is absent;
\* processImages catches that and falls back to sharp
ImCall ==
    /\ pc = "imCall"
    /\ probes' = probes + 1
    /\ \E available \in BOOLEAN :
          IF available
          THEN Goto(<<"im", 1>>) /\ UNCHANGED rasterFiles
          ELSE FallBackToSharp
    /\ UNCHANGED <<dir, results, log, imgConst, gufVars, vidVars, sysVars>>

\* return results
ImgReturn ==
    /\ pc = "ret"
    /\ pc' = "done"
    /\ UNCHANGED <<dir, step, rasterFiles, fileIdx, fmtIdx, processedFiles,
                   results, log, probes, imgConst, gufVars, vidVars, sysVars>>

ImgInit ==
    /\ files \in { [i \in 1..Len(b) |-> Upload(i, b[i])] : b \in Batches }
    /\ formats \in FormatChoices
    /\ useImageMagick \in BOOLEAN
    /\ dir = { files[i].path : i \in {j \in 1..Len(files) :
                                          files[j].fault # "missing"} }
    /\ pc = "start"
    /\ step = "stat"
    /\ rasterFiles = <<>>
    /\ fileIdx = 0
    /\ fmtIdx = 1
    /\ processedFiles = <<>>
    /\ results = <<>>
    /\ log = <<>>
    /\ probes = 0
    /\ GufIdle
    /\ VidIdle
    /\ SysIdle

ImgNext ==
    \/ ImgPartition
    \/ SvgRasterStat \/ SvgRasterFormat \/ SvgRasterFinish
    \/ OptRead \/ OptWrite \/ OptFinish
    \/ ImProbe \/ ImCall
    \/ ImStat \/ ImFormat \/ ImFinish
    \/ RasterStat \/ RasterFormat \/ RasterFinish
    \/ ImgReturn

SpecImages == ImgInit /\ [][ImgNext]_vars

(***************************************************************************)
(* Specification SpecRouting: processImages on batches whose names spell   *)
(* the extensions in either case; nothing fails.                           *)
(***************************************************************************)
RoutingExts == {".svg", ".SVG", ".tif", ".TIF", ".PNG", ".jpg"}

RoutingBatches ==
    UNION { [1..n -> { <<[base |-> <<"a">>, ext |-> x], "none">> :
                          x \in RoutingExts }] : n \in 1..MaxFiles }

RouteInit ==
    /\ files \in { [i \in 1..Len(b) |-> Upload(i, b[i])] : b \in RoutingBatches }
    /\ formats = <<"webp", "svg">>
    /\ useImageMagick \in BOOLEAN
    /\ dir = { files[i].path : i \in 1..Len(files) }
    /\ pc = "start"
    /\ step = "stat"
    /\ rasterFiles = <<>>
    /\ fileIdx = 0
    /\ fmtIdx = 1
    /\ processedFiles = <<>>
    /\ results = <<>>
    /\ log = <<>>
    /\ probes = 0
    /\ GufIdle
    /\ VidIdle
    /\ SysIdle

SpecRouting == RouteInit /\ [][ImgNext]_vars

VectorExts == {".svg", ".SVG"}

SpecialtyExts == {".tif", ".TIF"}

InGroup(f, group) == \E j \in 1..Len(group) : group[j] = f

\* the three groups as the filters leave them
Partitioned ==
    /\ \A i \in 1..Len(files) :
          LET f == files[i]
              ext == f.originalname.ext
              vector == InGroup(f, svgFiles)
              specialty == InGroup(f, imageMagickFiles)
              ordinary == InGroup(f, rasterFiles)
          IN  /\ vector \/ specialty \/ ordinary
              /\ ~(vector /\ specialty)
              /\ ~(vector /\ ordinary)
              /\ ~(specialty /\ ordinary)
              /\ vector <=> ext \in VectorExts
              /\ specialty <=> (useImageMagick /\ ext \in SpecialtyExts)
    /\ Len(svgFiles) + Len(imageMagickFiles) + Len(rasterFiles) = Len(files)
    /\ ~useImageMagick => imageMagickFiles = <<>>

\* C29: routing is a partition: each input file is in exactly one of the
\* vector, specialty-raster and ordinary-raster groups, decided only by the
\* lower-cased extension of its original name; with the secondary encoder
\* disabled the specialty group is empty and its files are ordinary raster.
C29_RoutingIsPartition ==
    [][(pc = "start" /\ pc' # "start") => Partitioned']_vars

\* a batch of an upper-case vector name and an upper-case specialty name has
\* been routed with the secondary encoder disabled
C29_Witness ==
    /\ pc \notin {"start", "done"}
    /\ ~useImageMagick
    /\ Len(files) = 2
    /\ files[1].originalname.ext = ".SVG"
    /\ files[2].originalname.ext = ".TIF"
    /\ rasterFiles = <<files[2]>>

(***************************************************************************)
(* Properties of processImages                                             *)
(***************************************************************************)
FileIds == 1..Len(files)

ResultsOf(id) == {k \in 1..Len(results) : results[k].src = id}

LogIdx == 1..Len(log)

\* the upload can throw nowhere in its pipeline
NeverFails(f) == f.fault \in {"none", "busy"}

\* the formats the documentation has each kind of upload fan out to
RequestedFormats(f) ==
    IF IsSvg(f)
    THEN {fmt \in SeqToSet(formats) : fmt \in SharpRasterFormats \/ fmt = "svg"}
    ELSE {fmt \in SeqToSet(formats) : fmt # "svg"}

IsOrdinaryRaster(f) == ~IsSvg(f) /\ ~shouldUseImageMagick(f.originalname)

\* C1: processImages returns exactly one result entry per input file.
C1_OneResultPerFile == pc = "done" => Len(results) = Len(files)

\* C2: an error in one file's pipeline never stops the batch: the batch
\* goes on until it returns, and every file that cannot fail itself and
\* has a pipeline to go through is reported 'success' in every result made
\* for it, with every format requested of it encoded and on disk.
C2_FailureIsolation ==
    /\ pc # "done" => ENABLED ImgNext
    /\ pc = "done" =>
         \A i \in FileIds :
            LET f == files[i] IN
            (NeverFails(f) /\ RequestedFormats(f) # {}) =>
               /\ ResultsOf(i) # {}
               /\ \A k \in ResultsOf(i) :
                     /\ results[k].status = "success"
                     /\ \A a \in 1..Len(results[k].processedFiles) :
                           results[k].processedFiles[a].filename \in dir
               /\ \A fmt \in RequestedFormats(f) :
                     \E k \in ResultsOf(i) :
                        \E a \in 1..Len(results[k].processedFiles) :
                           results[k].processedFiles[a].format = fmt

\* C2 witness: the batch returned; the file processed first failed and a
\* file processed after it, which cannot fail itself, is reported success.
C2_Witness ==
    /\ pc = "done"
    /\ Len(results) >= 2
    /\ results[1].status = "error"
    /\ \E k \in 2..Len(results) :
          /\ results[k].status = "success"
          /\ results[k].src # results[1].src
          /\ NeverFails(files[results[k].src])
          /\ Len(results[k].processedFiles) > 0

\* C4: the results come in the order of the input files.
C4_ResultsInInputOrder ==
    pc = "done" =>
       \A i, j \in 1..Len(results) :
          i < j => results[i].src <= results[j].src

\* C5: a vector input requested in a raster format and in 'svg' yields a
\* single FileResult with one ArtifactRecord per requested format.
C5_VectorBothOneResult ==
    pc = "done" =>
       \A i \in FileIds :
          (IsSvg(files[i]) /\ NeverFails(files[i])
             /\ hasRasterFormats /\ hasSvgFormat) =>
             /\ Cardinality(ResultsOf(i)) = 1
             /\ \A k \in ResultsOf(i) :
                   Len(results[k].processedFiles) = Len(formats)

\* C6: for a vector source, the raster pass deletes the original only if
\* 'svg' is not requested; when 'svg' is requested, a source that was
\* uploaded is still there when the optimization pass reads it and is gone
\* only once the optimized artifact has been written; every step of the
\* raster pass comes before every step of the optimization pass.
C6_VectorSourceKeptForOptimizer ==
    /\ \A k \in LogIdx :
          (log[k].ev = "unlink" /\ log[k].by = "svgRaster") => ~hasSvgFormat
    /\ (pc = "svgOpt" /\ step = "read") =>
          (svgFiles[fileIdx].fault # "missing" =>
              svgFiles[fileIdx].path \in dir)
    /\ \A i \in FileIds :
          (IsSvg(files[i]) /\ hasSvgFormat /\ files[i].fault # "missing"
             /\ files[i].path \notin dir) =>
             \E j \in LogIdx :
                /\ log[j].ev = "write" /\ log[j].id = i
                /\ \E k \in LogIdx :
                      k > j /\ log[k].ev = "unlink" /\ log[k].id = i
                            /\ log[k].by = "svgOpt"
    /\ \A j, k \in LogIdx :
          (log[j].by = "svgRaster" /\ log[k].by = "svgOpt") => j < k

\* C6 witness: a vector source requested as webp and svg was rasterized,
\* then optimized, then deleted by the optimization pass.
C6_Witness ==
    /\ pc = "done"
    /\ hasRasterFormats /\ hasSvgFormat
    /\ \E i \in FileIds :
          /\ IsSvg(files[i])
          /\ files[i].path \notin dir
          /\ \E j, k \in LogIdx :
                /\ log[j].ev = "encode" /\ log[j].by = "svgRaster"
                /\ log[j].id = i /\ log[j].ok
                /\ log[k].ev = "unlink" /\ log[k].by = "svgOpt"
                /\ log[k].id = i /\ log[k].ok

EncodeEvents(i, fmt) ==
    {k \in LogIdx : log[k].ev = "encode" /\ log[k].id = i /\ log[k].fmt = fmt}

\* C7: for an ordinary raster file the primary encoder is invoked once per
\* requested non-'svg' format (never for another format, never twice), a
\* successful file lists one ArtifactRecord per such format, the source is
\* deleted only after every one of them was encoded successfully, and once
\* a format has failed the source is never deleted by the batch.
C7_RasterFanOutThenDelete ==
    \A i \in FileIds :
       LET f == files[i] IN
       IsOrdinaryRaster(f) =>
          /\ \A k \in LogIdx :
                (log[k].ev = "encode" /\ log[k].id = i) =>
                   /\ log[k].fmt \in RequestedFormats(f)
                   /\ log[k].by = "raster"
                   /\ Cardinality(EncodeEvents(i, log[k].fmt)) = 1
          /\ \A k \in LogIdx :
                (log[k].ev = "unlink" /\ log[k].id = i) =>
                   \A fmt \in RequestedFormats(f) :
                      \E j \in EncodeEvents(i, fmt) : j < k /\ log[j].ok
          /\ (\E k \in LogIdx :
                 log[k].ev = "encode" /\ log[k].id = i /\ ~log[k].ok) =>
                /\ f.path \in dir
                /\ \A k \in LogIdx : ~(log[k].ev = "unlink" /\ log[k].id = i)
          /\ \A r \in ResultsOf(i) :
                results[r].status = "success" =>
                   /\ Len(results[r].processedFiles)
                         = Cardinality(RequestedFormats(f))
                   /\ \A fmt \in RequestedFormats(f) :
                         \E a \in 1..Len(results[r].processedFiles) :
                            results[r].processedFiles[a].format = fmt

\* C7 witness: an ordinary raster file requested in two formats was encoded
\* twice and then deleted; another one failed and is still on disk.
C7_Witness ==
    /\ pc = "done"
    /\ \E i \in FileIds :
          /\ IsOrdinaryRaster(files[i])
          /\ Cardinality(RequestedFormats(files[i])) = 2
          /\ files[i].path \notin dir
          /\ \E r \in ResultsOf(i) : Len(results[r].processedFiles) = 2
    /\ \E i \in FileIds :
          /\ IsOrdinaryRaster(files[i])
          /\ files[i].fault = "second"
          /\ files[i].path \in dir
          /\ \E r \in ResultsOf(i) : results[r].status = "error"

\* the formats of all artifacts of the results of file i
ArtifactFormats(i) ==
    UNION { { results[r].processedFiles[a].format :
                 a \in 1..Len(results[r].processedFiles) } :
            r \in {q \in ResultsOf(i) : results[q].status = "success"} }

\* safeUnlink of the source of file i gave up: it was attempted, did not
\* delete, and the source is one that stays locked through all retries
GaveUpOn(i) ==
    /\ files[i].fault = "busy"
    /\ \E k \in LogIdx : log[k].ev = "unlink" /\ log[k].id = i /\ ~log[k].ok

\* the formats file i was encoded or written to
ProducedFormats(i) ==
    { log[k].fmt : k \in {j \in LogIdx : /\ log[j].ev \in {"encode", "write"}
                                         /\ log[j].id = i
                                         /\ log[j].ok} }

\* C16: in processImages a source that stays busy through all retries of
\* safeUnlink is not a failure: every result of the file is 'success', the
\* results carry every artifact that was produced, one at least for every
\* requested format, and the source stays in the directory.
C16_BusySourceNonFatal ==
    \A i \in FileIds :
       GaveUpOn(i) =>
          /\ files[i].path \in dir
          /\ ResultsOf(i) # {}
          /\ \A r \in ResultsOf(i) : results[r].status = "success"
          /\ pc = "done" =>
                /\ ArtifactFormats(i) = ProducedFormats(i)
                /\ RequestedFormats(files[i]) \subseteq ArtifactFormats(i)

\* C16 witness: the batch is done, a raster source requested in two formats
\* stayed locked, and its result has both artifacts.
C16_Witness ==
    /\ pc = "done"
    /\ \E i \in FileIds :
          /\ GaveUpOn(i)
          /\ ~IsSvg(files[i])
          /\ Cardinality(RequestedFormats(files[i])) = 2
          /\ \E r \in ResultsOf(i) : Len(results[r].processedFiles) = 2

\* the uploads routed by extension to the secondary encoder
SpecialtyIds ==
    {i \in FileIds : shouldUseImageMagick(files[i].originalname)}

PushesOf(i) == {k \in LogIdx : log[k].ev = "push" /\ log[k].id = i}

\* the loop of processWithImageMagick worked on some file
SecondaryRan == \E k \in LogIdx : log[k].by = "im"

\* C28: specialty-raster files are never lost to the secondary encoder:
\* when it is disabled, unavailable or throws for the whole sub-batch, the
\* files are handed to the primary raster encoder in the same batch, and
\* each specialty file ends with exactly one result, made by one encoder.
C28_SpecialtyFallsBackOnce ==
    /\ \A i \in SpecialtyIds :
          /\ Cardinality(ResultsOf(i)) <= 1
          /\ \A k \in PushesOf(i) : log[k].by \in {"im", "raster"}
          /\ \A k \in PushesOf(i) :
                log[k].by = IF SecondaryRan THEN "im" ELSE "raster"
    /\ (pc \in {"raster", "ret", "done"} /\ ~SecondaryRan) =>
          \A i \in SpecialtyIds :
             \E j \in 1..Len(rasterFiles) : rasterFiles[j] = files[i]
    /\ ~useImageMagick => ~SecondaryRan
    /\ pc = "done" =>
          \A i \in SpecialtyIds :
             /\ Cardinality(ResultsOf(i)) = 1
             /\ Cardinality(PushesOf(i)) = 1

\* convert was there at the first probe and gone at the second: the call of
\* processWithImageMagick threw and sharp made the file's result
C28_Witness ==
    /\ pc = "done"
    /\ useImageMagick
    /\ probes = 2
    /\ \E i \in SpecialtyIds :
          /\ files[i].fault = "none"
          /\ \E k \in PushesOf(i) : log[k].by = "raster" /\ log[k].ok

\* the output formats the image options document, with the code's alias jpeg
\* and the vector format
RecognizedImageFormats == SharpRasterFormats \cup {"svg"}

\* C30: unknown or invalid option values never reach an encoder: a
\* requested output format outside the recognized set is rejected or
\* defaulted before any encoder is invoked, so no encoder runs for it and
\* no artifact is written or reported under an unrecognized format name.
C30_UnknownFormatNeverEncoded ==
    /\ \A k \in LogIdx :
          log[k].ev = "encode" => log[k].fmt \in RecognizedImageFormats
    /\ \A j \in 1..Len(processedFiles) :
          processedFiles[j].format \in RecognizedImageFormats

\* C34: the availability of the secondary encoder is probed at most once
\* per batch, whatever the number of specialty-raster files in it.
C34_ProbedAtMostOnce == probes <= 1

\* the files of the directory that are no upload of the batch
OutputsOnDisk == dir \ { files[i].path : i \in FileIds }

\* the filenames the ArtifactRecords of the returned results list
ListedArtifacts ==
    UNION { { results[k].processedFiles[j].filename :
                 j \in 1..Len(results[k].processedFiles) } :
            k \in {q \in 1..Len(results) : results[q].status = "success"} }

\* C38: no orphan artifacts: when the batch returns, every output file
\* written for an input is listed in an ArtifactRecord of a returned
\* result or has been removed; a file reported 'error' after some of its
\* formats were encoded leaves none of those outputs in the directory.
C38_NoOrphanArtifacts ==
    pc = "done" => OutputsOnDisk \subseteq ListedArtifacts

\* C39: the source of an input is deleted only after at least one
\* artifact has been produced from it, and every result with status
\* 'success' lists at least one artifact, whatever formats are requested.
C39_DeleteOnlyAfterArtifact ==
    /\ \A k \in 1..Len(results) :
          results[k].status = "success" =>
             Len(results[k].processedFiles) > 0
    /\ \A k \in LogIdx :
          (log[k].ev = "unlink" /\ log[k].ok) =>
             \E j \in 1..(k - 1) :
                /\ log[j].id = log[k].id
                /\ log[j].ev \in {"encode", "write"}
                /\ log[j].ok

\* C8: a file's FileResult is appended only after all of that file's
\* requested formats have been attempted, also when a format fails
\* (stated for the raster and specialty files whose source is on disk).
C8_PushAfterAllFormatsAttempted ==
    \A k \in LogIdx :
       (log[k].ev = "push" /\ ~IsSvg(files[log[k].id])
          /\ files[log[k].id].fault # "missing") =>
          \A fmt \in RequestedFormats(files[log[k].id]) :
             \E j \in EncodeEvents(log[k].id, fmt) : j < k

(***************************************************************************)
(* POST /video and processVideo                                            *)
(***************************************************************************)
\* what goes wrong with a video upload:
\*   missing  the stored source is not on disk
\*   empty    the stored source has size 0
\*   corrupt  ffmpeg emits 'error'
\*   busy     fs.unlink of the source throws EBUSY
VideoFaults == {"none", "missing", "empty", "corrupt", "busy"}

VideoFormats == {"mp4", "webm", "mov", "mkv", "gif"}

VideoPresets == {"web", "quality", "fast", "other"}

VideoUploads ==
    { [ originalname |-> [base |-> <<"a">>, ext |-> ".avi"],
        path |-> <<"file", "-", "1", ".avi">>,
        fault |-> flt ] : flt \in VideoFaults }

\* req.file when the request carries no file
NoFile ==
    [ originalname |-> [base |-> <<>>, ext |-> ""], path |-> <<>>,
      fault |-> "nofile" ]

VideoOptions ==
    [ format : VideoFormats, bitrate : 0..MaxBitrate, preset : VideoPresets,
      audio : BOOLEAN ]

\* presetMap[preset] || 'medium'
PresetSpeed(preset) ==
    CASE preset = "web" -> "medium"
      [] preset = "quality" -> "slow"
      [] preset = "fast" -> "veryfast"
      [] OTHER -> "medium"

\* the ladder with the rungs of 2 and 3 exchanged
CrfRungsSwapped(bitrateNum) ==
    IF bitrateNum >= 5 THEN 18
    ELSE IF bitrateNum >= 3 THEN 23
    ELSE IF bitrateNum >= 2 THEN 20
    ELSE IF bitrateNum >= 1 THEN 28
    ELSE 32

\* the CRF ladder on parseInt(bitrate)
Crf(bitrateNum) ==
    IF bitrateNum >= 5 THEN 18
    ELSE IF bitrateNum >= 3 THEN 20
    ELSE IF bitrateNum >= 2 THEN 23
    ELSE IF bitrateNum >= 1 THEN 28
    ELSE 32

IsX264(format) == format \in {"mp4", "mov", "mkv"}

\* the command as it would be if the gif branch handled audio as the other
\* formats do
BuildCommandGifAudio(o) ==
    [ codec |-> IF o.format = "gif" THEN "gif"
                ELSE IF IsX264(o.format) THEN "libx264" ELSE "libvpx-vp9",
      preset |-> IF IsX264(o.format) THEN PresetSpeed(o.preset) ELSE NoValue,
      crf |-> IF IsX264(o.format) THEN Crf(o.bitrate) ELSE NoValue,
      faststart |-> o.format \in {"mp4", "mov"},
      audio |-> o.audio ]

\* the output options the command is built with (resize filters left out)
BuildCommand(o) ==
    IF o.format = "gif"
    THEN [ codec |-> "gif", preset |-> NoValue, crf |-> NoValue,
           faststart |-> FALSE, audio |-> FALSE ]
    ELSE [ codec |-> IF IsX264(o.format) THEN "libx264" ELSE "libvpx-vp9",
           preset |-> IF IsX264(o.format) THEN PresetSpeed(o.preset)
                      ELSE NoValue,
           crf |-> IF IsX264(o.format) THEN Crf(o.bitrate) ELSE NoValue,
           faststart |-> o.format \in {"mp4", "mov"},
           audio |-> o.audio ]

VidInit ==
    /\ vFile \in VideoUploads \cup {NoFile}
    /\ vOptions \in VideoOptions
    /\ dir \in { (IF vFile.fault \notin {"nofile", "missing"}
                  THEN {vFile.path} ELSE {}) \cup old :
                 old \in { {}, {PlainName(<<"a">>, vOptions.format)} } }
    /\ vPc = "route"
    /\ vOutputFilename = NoValue
    /\ vCommand = NoValue
    /\ vPromise = "pending"
    /\ vResult = NoValue
    /\ vResponse = NoValue
    /\ GufIdle
    /\ ImgIdle
    /\ SysIdle

vidConst == <<vFile, vOptions>>

\* reject(error): from the outer catch or from a handler
VidReject ==
    /\ vPromise' = "rejected"
    /\ vResult' = NoValue
    /\ vPc' = "settled"

\* if (!file) return res.status(400); else await processVideo(file, options)
VidRoute ==
    /\ vPc = "route"
    /\ IF vFile = NoFile
       THEN /\ vResponse' = [status |-> 400, body |-> NoValue]
            /\ vPc' = "responded"
       ELSE /\ vPc' = "stat"
            /\ UNCHANGED vResponse
    /\ UNCHANGED <<dir, vOutputFilename, vCommand, vPromise, vResult,
                   vidConst, gufVars, imgVars, sysVars>>

\* const originalSize = (await fs.stat(file.path)).size
VidStat ==
    /\ vPc = "stat"
    /\ IF ~fsAccess(dir, vFile.path)
       THEN VidReject
       ELSE vPc' = "allocate" /\ UNCHANGED <<vPromise, vResult>>
    /\ UNCHANGED <<dir, vOutputFilename, vCommand, vResponse, vidConst,
                   gufVars, imgVars, sysVars>>

\* getUniqueFilename, then the input is verified: present and not empty
VidAllocate ==
    /\ vPc = "allocate"
    /\ vOutputFilename' =
          getUniqueFilename(dir, vFile.originalname.base, vOptions.format)
    /\ IF ~fsAccess(dir, vFile.path) \/ vFile.fault = "empty"
       THEN VidReject
       ELSE vPc' = "build" /\ UNCHANGED <<vPromise, vResult>>
    /\ UNCHANGED <<dir, vCommand, vResponse, vidConst, gufVars, imgVars, sysVars>>

\* the command is built and run
VidBuild ==
    /\ vPc = "build"
    /\ vCommand' = BuildCommand(vOptions)
    /\ vPc' = "run"
    /\ UNCHANGED <<dir, vOutputFilename, vPromise, vResult, vResponse,
                   vidConst, gufVars, imgVars, sysVars>>

\* ffmpeg runs: 'end' with the output written, or 'error' with the output
\* partially written or not at all
VidRun ==
    /\ vPc = "run"
    /\ IF vFile.fault = "corrupt"
       THEN /\ vPc' = "onError"
            /\ \E partial \in BOOLEAN :
                  dir' = IF partial THEN dir \cup {vOutputFilename} ELSE dir
       ELSE /\ vPc' = "onEnd"
            /\ dir' = dir \cup {vOutputFilename}
    /\ UNCHANGED <<vOutputFilename, vCommand, vPromise, vResult, vResponse,
                   vidConst, gufVars, imgVars, sysVars>>

\* .on('end'): stat the output, fs.unlink(file.path), resolve({...})
VidOnEnd ==
    /\ vPc = "onEnd"
    /\ IF vFile.fault = "busy"
       THEN VidReject /\ UNCHANGED dir
       ELSE /\ dir' = dir \ {vFile.path}
            /\ vPromise' = "resolved"
            /\ vResult' = [ name |-> vFile.originalname,
                            filename |-> vOutputFilename,
                            status |-> "success" ]
            /\ vPc' = "settled"
    /\ UNCHANGED <<vOutputFilename, vCommand, vResponse, vidConst, gufVars,
                   imgVars, sysVars>>

\* .on('error'): the output is unlinked (a failure ignored), reject(error);
\* the input is left in place
VidOnError ==
    /\ vPc = "onError"
    /\ dir' = dir \ {vOutputFilename}
    /\ VidReject
    /\ UNCHANGED <<vOutputFilename, vCommand, vResponse, vidConst, gufVars,
                   imgVars, sysVars>>

\* res.json({ success: true, result }) or, in the catch, res.status(500)
VidRespond ==
    /\ vPc = "settled"
    /\ vResponse' = IF vPromise = "resolved"
                    THEN [status |-> 200, body |-> vResult]
                    ELSE [status |-> 500, body |-> NoValue]
    /\ vPc' = "responded"
    /\ UNCHANGED <<dir, vOutputFilename, vCommand, vPromise, vResult,
                   vidConst, gufVars, imgVars, sysVars>>

VidNext ==
    \/ VidRoute \/ VidStat \/ VidAllocate \/ VidBuild \/ VidRun
    \/ VidOnEnd \/ VidOnError \/ VidRespond

SpecVideo == VidInit /\ [][VidNext]_vars

\* C3: a per-file error is never thrown past the per-file boundary: the
\* call made for a video whose pipeline fails settles with a record of
\* status 'error', never by rejecting.
C3_VideoErrorsBecomeRecords ==
    (vPc \in {"settled", "responded"} /\ vFile # NoFile) =>
       /\ vPromise = "resolved"
       /\ vFile.fault \in {"missing", "empty", "corrupt"} =>
             vResult.status = "error"

\* the call has settled, for an upload that passes the checks before the
\* encoder: ffmpeg was run
EncoderRan ==
    /\ vPc \in {"settled", "responded"}
    /\ vFile.fault \in {"none", "corrupt", "busy"}

\* C25: processVideo produces exactly one output per file: when the
\* encoder succeeds the source is deleted and a success record is
\* returned; when it fails the output, partial or not, is deleted and the
\* source is left in place.
C25_VideoSourceAndOutput ==
    EncoderRan =>
       IF vFile.fault = "corrupt"
       THEN /\ vOutputFilename \notin dir
            /\ vFile.path \in dir
       ELSE /\ vOutputFilename \in dir
            /\ vFile.path \notin dir
            /\ vPromise = "resolved"

\* the command has been built
CommandBuilt ==
    \/ vPc \in {"run", "onEnd", "onError"}
    \/ EncoderRan

\* C26: for output format gif the encoder is invoked without an audio
\* track whatever the audio option says; for every other format the audio
\* track is present exactly when the audio option is true.
C26_GifSilentOthersByOption ==
    CommandBuilt =>
       vCommand.audio = (vOptions.format # "gif" /\ vOptions.audio)

\* a gif was asked for with audio: true and ffmpeg ended
C26_Witness ==
    /\ vPc = "onEnd"
    /\ vOptions.format = "gif"
    /\ vOptions.audio
    /\ ~vCommand.audio

\* the command carries a -crf option
CrfApplied == CommandBuilt /\ IsX264(vOptions.format)

\* C27: the mapping from the bitrate hint to the CRF is monotonic: a higher
\* hint never gives a higher CRF, and the values are 32 below 1, 28 from 1,
\* 23 from 2, 20 from 3 and 18 from 5.
C27_CrfMonotonic ==
    CrfApplied =>
       LET b == vOptions.bitrate
       IN  /\ b < 1 => vCommand.crf = 32
           /\ b = 1 => vCommand.crf = 28
           /\ b = 2 => vCommand.crf = 23
           /\ b \in {3, 4} => vCommand.crf = 20
           /\ b >= 5 => vCommand.crf = 18
           /\ \A a \in 0..MaxBitrate : a <= b => vCommand.crf <= Crf(a)
           /\ \A c \in 0..MaxBitrate : b <= c => Crf(c) <= vCommand.crf

\* an x264 encode ended with a hint between two thresholds
C27_Witness ==
    /\ vPc = "onEnd"
    /\ vOptions.format = "mkv"
    /\ vOptions.bitrate = 4
    /\ vCommand.crf = 20

(***************************************************************************)
(* Specification SpecUnlink: one call of safeUnlink, attempt by attempt.   *)
(* suCopy says which copy runs: "cleanup" is fileCleanup.js, "orchestrator"*)
(* is the copy of imageProcessor.js, imageMagickProcessor.js and           *)
(* svgProcessor.js.  suCodes[k] is what fs.unlink answers on attempt k.    *)
(***************************************************************************)
\* default of parameter `delay`
BaseDelayMs == 100

UnlinkCodes == {"ok", "EBUSY", "EPERM", "ENOENT", "EACCES"}

SafeUnlinkCopies == {"cleanup", "orchestrator"}

\* a variant that retries whatever fs.unlink throws
RetriesEverything(code) == code # "ok"

\* err.code === 'EPERM' || err.code === 'EBUSY'
IsRetryable(code) == code \in {"EPERM", "EBUSY"}

\* only fileCleanup.js has the branch `else if (err.code === 'ENOENT')`
HandlesENOENT(copy) == copy = "cleanup"

\* a variant that waits the same delay before every retry
RetryDelayFlat(delay, i) == delay

\* setTimeout(resolve, delay * (i + 1))
RetryDelay(delay, i) == delay * (i + 1)

\* `return true` / `return false` in fileCleanup.js; the other copies
\* `return` nothing, also when they give up
Returned(copy, deleted) ==
    IF copy = "cleanup" THEN (IF deleted THEN "true" ELSE "false")
    ELSE "undefined"

SuInit ==
    /\ dir = {}
    /\ suCopy \in SafeUnlinkCopies
    /\ suCodes \in [1..Retries -> UnlinkCodes]
    /\ suI = 0
    /\ suPc = "try"
    /\ suAttempts = 0
    /\ suDelays = <<>>
    /\ suOutcome = "pending"
    /\ GufIdle
    /\ ImgIdle
    /\ VidIdle
    /\ SweepIdle
    /\ RaceIdle
    /\ ArchIdle
    /\ EntryIdle
    /\ SavIdle
    /\ QueIdle

suCode == suCodes[suI + 1]

suConst == <<dir, suCopy, suCodes, gufVars, imgVars, vidVars, sweepVars,
            raceVars, archVars, entryVars, savVars, queVars>>

\* await fs.unlink(filePath) resolves: return
SuUnlinkOk ==
    /\ suPc = "try"
    /\ suI < Retries
    /\ suCode = "ok"
    /\ suAttempts' = suAttempts + 1
    /\ suOutcome' = Returned(suCopy, TRUE)
    /\ suPc' = "done"
    /\ UNCHANGED <<suI, suDelays, suConst>>

\* EPERM or EBUSY with attempts left: the wait is scheduled
SuUnlinkBusyRetry ==
    /\ suPc = "try"
    /\ suI < Retries
    /\ IsRetryable(suCode)
    /\ suI < Retries - 1
    /\ suAttempts' = suAttempts + 1
    /\ suPc' = "wait"
    /\ UNCHANGED <<suI, suDelays, suOutcome, suConst>>

\* EPERM or EBUSY on the last attempt: fileCleanup.js returns false, the
\* other copies warn and fall out of the loop
SuUnlinkBusyLast ==
    /\ suPc = "try"
    /\ suI < Retries
    /\ IsRetryable(suCode)
    /\ ~(suI < Retries - 1)
    /\ suAttempts' = suAttempts + 1
    /\ suOutcome' = Returned(suCopy, FALSE)
    /\ suPc' = "done"
    /\ UNCHANGED <<suI, suDelays, suConst>>

\* ENOENT: fileCleanup.js returns true, the other copies rethrow
SuUnlinkGone ==
    /\ suPc = "try"
    /\ suI < Retries
    /\ ~IsRetryable(suCode)
    /\ suCode = "ENOENT"
    /\ suAttempts' = suAttempts + 1
    /\ suOutcome' = IF HandlesENOENT(suCopy) THEN Returned(suCopy, TRUE)
                    ELSE "throws"
    /\ suPc' = "done"
    /\ UNCHANGED <<suI, suDelays, suConst>>

\* any other error: throw err
SuUnlinkFatal ==
    /\ suPc = "try"
    /\ suI < Retries
    /\ ~IsRetryable(suCode)
    /\ suCode \notin {"ok", "ENOENT"}
    /\ suAttempts' = suAttempts + 1
    /\ suOutcome' = "throws"
    /\ suPc' = "done"
    /\ UNCHANGED <<suI, suDelays, suConst>>

\* the timer fires, i++
SuWait ==
    /\ suPc = "wait"
    /\ suDelays' = Append(suDelays, RetryDelay(BaseDelayMs, suI))
    /\ suI' = suI + 1
    /\ suPc' = "try"
    /\ UNCHANGED <<suAttempts, suOutcome, suConst>>

SuNext ==
    \/ SuUnlinkOk
    \/ SuUnlinkBusyRetry
    \/ SuUnlinkBusyLast
    \/ SuUnlinkGone
    \/ SuUnlinkFatal
    \/ SuWait

SpecUnlink == SuInit /\ [][SuNext]_vars

\* index of the first attempt whose answer is not EPERM/EBUSY, 0 if none
FirstSettling ==
    IF \A k \in 1..Retries : suCodes[k] \in {"EPERM", "EBUSY"} THEN 0
    ELSE CHOOSE k \in 1..Retries :
             /\ suCodes[k] \notin {"EPERM", "EBUSY"}
             /\ \A j \in 1..(k - 1) : suCodes[j] \in {"EPERM", "EBUSY"}

\* the delays the documentation gives for n failed attempts followed by
\* another attempt: baseDelayMs * k after failed attempt k
DocDelays(n) == [k \in 1..n |-> BaseDelayMs * k]

\* C13: deleting an already-absent path through safeUnlink returns true
\* at once, after exactly one unlink attempt and no delay, and never
\* raises, in the copy of the scheduler and in the copies of the
\* orchestrator.
C13_AbsentPathIdempotent ==
    (suPc = "done" /\ suCodes[1] = "ENOENT") =>
        /\ suOutcome = "true"
        /\ suAttempts = 1
        /\ suDelays = <<>>

\* C14: when every attempt fails with EBUSY/EPERM, safeUnlink of
\* fileCleanup.js makes exactly `retries` attempts, waits delay * k after
\* failed attempt k < retries and not after the last, and returns false
\* without raising; when an attempt succeeds it returns true at once with
\* no further attempt.
C14_BusyRetriesThenFalse ==
    (suPc = "done" /\ suCopy = "cleanup") =>
        /\ FirstSettling = 0 =>
               /\ suAttempts = Retries
               /\ suDelays = DocDelays(Retries - 1)
               /\ suOutcome = "false"
        /\ (FirstSettling # 0 /\ suCodes[FirstSettling] = "ok") =>
               /\ suAttempts = FirstSettling
               /\ suDelays = DocDelays(FirstSettling - 1)
               /\ suOutcome = "true"

\* C14 witness: all three attempts answered busy or permission, with both
\* codes occurring.
C14_Witness ==
    /\ suPc = "done"
    /\ suCopy = "cleanup"
    /\ FirstSettling = 0
    /\ suCodes[1] # suCodes[Retries]

\* C15: an unlink error that is neither EBUSY/EPERM nor ENOENT is fatal in
\* every copy of safeUnlink: it is thrown on the attempt where it occurs,
\* with no further attempt and no further wait.
C15_OtherErrorsPropagate ==
    (suPc = "done" /\ FirstSettling # 0
        /\ suCodes[FirstSettling] \notin {"ok", "ENOENT"}) =>
        /\ suOutcome = "throws"
        /\ suAttempts = FirstSettling
        /\ Len(suDelays) = FirstSettling - 1

\* C15 witness: a busy first attempt, then EACCES on the second, in the
\* copy of the orchestrator.
C15_Witness ==
    /\ suPc = "done"
    /\ suCopy = "orchestrator"
    /\ suCodes[1] = "EBUSY"
    /\ suCodes[2] = "EACCES"
    /\ suOutcome = "throws"

(***************************************************************************)
(* Specification SpecSweep: fileCleanup.js.  The server starts listening,  *)
(* wipes the uploads directory when DISABLE_LIMITS is set, starts the      *)
(* scheduler, and the interval timer runs cleanupExpiredFiles every        *)
(* minute.  Entries of the directory are named by slots; `dir` holds the   *)
(* names present.  One call of cleanupExpiredFiles ends before the next    *)
(* tick.  Past Horizon every entry of the model is expired, and the clock  *)
(* is not advanced any further.                                            *)
(***************************************************************************)
MaxEntries == 2

Minute == 60 * 1000

FILE_EXPIRY_MS == 10 * 60 * 1000

CLEANUP_INTERVAL_MS == 60 * 1000

\* the clock when the server starts listening
StartTime == 11 * Minute

Horizon == StartTime + 2 * Minute

\* last-modified times: 11, 10 and 9 minutes before StartTime
Mtimes == {0, Minute, 2 * Minute}

Slots == 1..MaxEntries

EntryName(i) == StoragePath(i, ".png")

Absent == [kind |-> "none", mtime |-> 0, lock |-> "free"]

EntryChoices ==
    {Absent}
       \cup [kind : {"file"}, mtime : Mtimes, lock : {"free", "busy", "denied"}]
       \cup [kind : {"dir"}, mtime : {0}, lock : {"free"}]

SlotsIn(d) == {i \in Slots : EntryName(i) \in d}

\* fs.readdir gives the names in an order the file system chooses
Listings(d) ==
    LET S == SlotsIn(d) IN
    {l \in [1..Cardinality(S) -> S] :
        \A a, b \in 1..Cardinality(S) : a # b => l[a] # l[b]}

Min(a, b) == IF a < b THEN a ELSE b

\* the next firing of the interval timer armed at StartTime
NextTick(now) == ((now \div CLEANUP_INTERVAL_MS) + 1) * CLEANUP_INTERVAL_MS

\* a variant that also expires a file exactly at the threshold
ExpiredAtThreshold(fileAge) == fileAge >= FILE_EXPIRY_MS

\* if (fileAge > FILE_EXPIRY_MS)
IsExpired(fileAge) == fileAge > FILE_EXPIRY_MS

\* a variant that takes every entry for a regular file
NothingIsDirectory(kind) == FALSE

\* stats.isDirectory()
IsDirectory(kind) == kind = "dir"

\* a variant that reports the missing directory as one error
MissingDirIsError(op) == SweepResult(op, 0, 1)

\* catch of fs.access(uploadsDir): return { cleaned: 0, errors: 0 }
MissingDirResult(op) == SweepResult(op, 0, 0)

\* a variant with a one-shot timer
TimerOneShot == FALSE

\* setInterval: the timer stays set after it fires
TimerStaysArmed == TRUE

\* what fs.unlink answers for the entry of slot i
EntryUnlinkError(d, m, i) ==
    IF EntryName(i) \notin d THEN "ENOENT"
    ELSE IF m[i].lock = "busy" THEN "EBUSY"
    ELSE IF m[i].lock = "denied" THEN "EACCES"
    ELSE "ok"

\* safeUnlink of fileCleanup.js: attempt i of `retries`, fs.unlink
\* answering `code` each time
RECURSIVE CleanupUnlinkFrom(_, _, _)
CleanupUnlinkFrom(i, retries, code) ==
    IF i >= retries THEN "false"
    ELSE IF code = "ok" THEN "true"
    ELSE IF IsRetryable(code)
         THEN IF i < retries - 1
              THEN CleanupUnlinkFrom(i + 1, retries, code)
              ELSE "false"
    ELSE IF HandlesENOENT("cleanup") /\ code = "ENOENT" THEN "true"
    ELSE "throws"

\* the time the same call spends in its setTimeout waits
RECURSIVE CleanupUnlinkWait(_, _, _)
CleanupUnlinkWait(i, retries, code) ==
    IF i >= retries - 1 \/ ~IsRetryable(code) THEN 0
    ELSE RetryDelay(BaseDelayMs, i) + CleanupUnlinkWait(i + 1, retries, code)

SweepInit ==
    /\ upExists \in BOOLEAN
    /\ meta \in [Slots -> IF upExists THEN EntryChoices ELSE {Absent}]
    /\ dir = {EntryName(i) : i \in {j \in Slots : meta[j].kind # "none"}}
    /\ clock = StartTime
    /\ disableLimits \in BOOLEAN
    /\ schedPc = "boot"
    /\ timerArmed = FALSE
    /\ swOp = "none"
    /\ swPc = "idle"
    /\ swNow = 0
    /\ swList = <<>>
    /\ swIdx = 0
    /\ swCleaned = 0
    /\ swErrors = 0
    /\ swResult = NoResult
    /\ swLog = <<>>
    /\ GufIdle
    /\ ImgIdle
    /\ VidIdle
    /\ DelIdle
    /\ RaceIdle
    /\ ArchIdle
    /\ EntryIdle
    /\ SavIdle
    /\ QueIdle

sweepConst == <<upExists, disableLimits, gufVars, imgVars, vidVars, delVars,
                raceVars, archVars, entryVars, savVars, queVars>>

\* entry of cleanupExpiredFiles ("sweep") or clearAllUploads ("wipe")
BeginCall(op) ==
    /\ swOp' = op
    /\ swPc' = "access"
    /\ swList' = <<>>
    /\ swIdx' = 0
    /\ swCleaned' = 0
    /\ swErrors' = 0
    /\ swLog' = <<>>
    /\ UNCHANGED <<swNow, swResult>>

\* a variant that wipes the uploads at every startup
WipesAlways(limitsDisabled) == TRUE

\* if (disableLimits)
WipesAtStartup(limitsDisabled) == limitsDisabled

\* app.listen callback: if (disableLimits) await clearAllUploads()
BootWipe ==
    /\ schedPc = "boot"
    /\ WipesAtStartup(disableLimits)
    /\ BeginCall("wipe")
    /\ schedPc' = "wiped"
    /\ UNCHANGED <<dir, meta, clock, timerArmed, sweepConst>>

\* startCleanupScheduler: cleanupExpiredFiles() at once, then setInterval
SchedStart ==
    /\ schedPc = (IF disableLimits THEN "wiped" ELSE "boot")
    /\ swPc = "idle"
    /\ BeginCall("sweep")
    /\ schedPc' = "running"
    /\ timerArmed' = TRUE
    /\ UNCHANGED <<dir, meta, clock, sweepConst>>

\* the interval timer fires: cleanupExpiredFiles()
SchedTick ==
    /\ schedPc = "running"
    /\ timerArmed
    /\ swPc = "idle"
    /\ clock' = Min(NextTick(clock), Horizon)
    /\ timerArmed' = TimerStaysArmed
    /\ BeginCall("sweep")
    /\ UNCHANGED <<dir, meta, schedPc, sweepConst>>

\* the function startCleanupScheduler returns: clearInterval
SchedStop ==
    /\ schedPc = "running"
    /\ schedPc' = "stopped"
    /\ timerArmed' = FALSE
    /\ UNCHANGED <<dir, meta, clock, swOp, swPc, swNow, swList, swIdx,
                   swCleaned, swErrors, swResult, swLog, sweepConst>>

\* fs.access(uploadsDir) throws: the directory does not exist
SweepMissing ==
    /\ swPc = "access"
    /\ ~upExists
    /\ swResult' = MissingDirResult(swOp)
    /\ swPc' = "idle"
    /\ UNCHANGED <<dir, meta, clock, schedPc, timerArmed, swOp, swNow, swList,
                   swIdx, swCleaned, swErrors, swLog, sweepConst>>

\* fs.readdir(uploadsDir); const now = Date.now()
SweepList ==
    /\ swPc = "access"
    /\ upExists
    /\ swList' \in Listings(dir)
    /\ swNow' = IF swOp = "sweep" THEN clock ELSE swNow
    /\ swIdx' = 1
    /\ swPc' = "loop"
    /\ UNCHANGED <<dir, meta, clock, schedPc, timerArmed, swOp, swCleaned,
                   swErrors, swResult, swLog, sweepConst>>

swSlot == swList[swIdx]

\* now - stats.mtimeMs; clearAllUploads computes no age
swFileAge == (IF swOp = "sweep" THEN swNow ELSE clock) - meta[swSlot].mtime

\* if (stats.isDirectory()) continue
SweepSkipDir ==
    /\ swPc = "loop"
    /\ swIdx <= Len(swList)
    /\ IsDirectory(meta[swSlot].kind)
    /\ swIdx' = swIdx + 1
    /\ UNCHANGED <<dir, meta, clock, schedPc, timerArmed, swOp, swPc, swNow,
                   swList, swCleaned, swErrors, swResult, swLog, sweepConst>>

\* cleanupExpiredFiles: fileAge > FILE_EXPIRY_MS is false
SweepKeepYoung ==
    /\ swPc = "loop"
    /\ swIdx <= Len(swList)
    /\ ~IsDirectory(meta[swSlot].kind)
    /\ swOp = "sweep"
    /\ ~IsExpired(swFileAge)
    /\ swIdx' = swIdx + 1
    /\ UNCHANGED <<dir, meta, clock, schedPc, timerArmed, swOp, swPc, swNow,
                   swList, swCleaned, swErrors, swResult, swLog, sweepConst>>

\* safeUnlink(filePath): cleaned++ when it returns true, errors++ when it
\* returns false or throws into the catch of the loop body
SweepUnlink ==
    /\ swPc = "loop"
    /\ swIdx <= Len(swList)
    /\ ~IsDirectory(meta[swSlot].kind)
    /\ swOp = "sweep" => IsExpired(swFileAge)
    /\ LET code == EntryUnlinkError(dir, meta, swSlot)
           deleted == CleanupUnlinkFrom(0, Retries, code)
       IN
       /\ dir' = IF deleted = "true" THEN dir \ {EntryName(swSlot)} ELSE dir
       /\ swCleaned' = IF deleted = "true" THEN swCleaned + 1 ELSE swCleaned
       /\ swErrors' = IF deleted = "true" THEN swErrors ELSE swErrors + 1
       /\ swLog' = Append(swLog, [slot |-> swSlot, age |-> swFileAge,
                                  deleted |-> deleted])
       /\ clock' = Min(clock + CleanupUnlinkWait(0, Retries, code), Horizon)
    /\ swIdx' = swIdx + 1
    /\ UNCHANGED <<meta, schedPc, timerArmed, swOp, swPc, swNow, swList,
                   swResult, sweepConst>>

\* return { cleaned, errors } / { cleared, errors }
SweepReturn ==
    /\ swPc = "loop"
    /\ swIdx > Len(swList)
    /\ swResult' = SweepResult(swOp, swCleaned, swErrors)
    /\ swPc' = "idle"
    /\ UNCHANGED <<dir, meta, clock, schedPc, timerArmed, swOp, swNow, swList,
                   swIdx, swCleaned, swErrors, swLog, sweepConst>>

\* whoever held a file open closes it
Unlock ==
    /\ \E i \in Slots :
          /\ meta[i].lock = "busy"
          /\ meta' = [meta EXCEPT ![i].lock = "free"]
    /\ UNCHANGED <<dir, clock, schedPc, timerArmed, swOp, swPc, swNow, swList,
                   swIdx, swCleaned, swErrors, swResult, swLog, sweepConst>>

\* the steps the server itself takes
SchedStep ==
    \/ BootWipe
    \/ SchedStart
    \/ SchedTick
    \/ SweepMissing
    \/ SweepList
    \/ SweepSkipDir
    \/ SweepKeepYoung
    \/ SweepUnlink
    \/ SweepReturn

SweepNext == SchedStep \/ SchedStop \/ Unlock

SpecSweep == SweepInit /\ [][SweepNext]_vars

\* Timers that are set fire and awaited promises settle.  Nothing obliges
\* a lock to be released or the scheduler to be stopped.
SpecSweepLive == SpecSweep /\ WF_vars(SchedStep)

SwLogIdx == 1..Len(swLog)

\* the slots the loop of the current call has already dealt with
SwVisited == {swList[j] : j \in {q \in 1..Len(swList) : q < swIdx}}

SwAttempted == {swLog[k].slot : k \in SwLogIdx}

SwOutcomes(outcomes) == {k \in SwLogIdx : swLog[k].deleted \in outcomes}

\* C17: one call of cleanupExpiredFiles applies safeUnlink to a regular file
\* if and only if `now`, taken once when the call lists the directory,
\* minus the file's mtime is strictly greater than 10 minutes: a file aged
\* 11 minutes is deleted, one aged 9 minutes or exactly 10 minutes stays.
C17_SweepDeletesIffExpired ==
    swOp = "sweep" =>
       /\ \A k \in SwLogIdx :
             /\ swLog[k].age = swNow - meta[swLog[k].slot].mtime
             /\ swLog[k].age > 10 * Minute
       /\ \A i \in SwVisited :
             meta[i].kind = "file" =>
                /\ swNow - meta[i].mtime > 10 * Minute => i \in SwAttempted
                /\ swNow - meta[i].mtime <= 10 * Minute =>
                      EntryName(i) \in dir
                /\ (swNow - meta[i].mtime >= 11 * Minute
                       /\ meta[i].lock = "free"
                       /\ \A k \in SwLogIdx :
                             swLog[k].slot = i => swLog[k].deleted = "true") =>
                      EntryName(i) \notin dir

\* C17 witness: the first sweep has ended; it deleted a file aged 11 minutes
\* and left one aged exactly 10 minutes.
C17_Witness ==
    /\ swOp = "sweep"
    /\ swPc = "idle"
    /\ swResult.cleaned = 1
    /\ \E k \in SwLogIdx :
          swLog[k].age = 11 * Minute /\ swLog[k].deleted = "true"
    /\ \E i \in SwVisited :
          /\ meta[i].kind = "file"
          /\ swNow - meta[i].mtime = 10 * Minute
          /\ EntryName(i) \in dir

\* what holds of every call of cleanupExpiredFiles while and after it runs:
\* a file it failed to delete is still in the directory and is counted in
\* `errors`, and every regular file it has passed that is expired was tried
SweepAccounts ==
    /\ \A k \in SwOutcomes({"false", "throws"}) :
          EntryName(swLog[k].slot) \in dir
    /\ swErrors = Cardinality(SwOutcomes({"false", "throws"}))
    /\ swCleaned = Cardinality(SwOutcomes({"true"}))
    /\ swPc = "loop" => SlotsIn(dir) \subseteq {swList[j] : j \in 1..Len(swList)}
    /\ swOp = "sweep" =>
          \A i \in SwVisited :
             (meta[i].kind = "file" /\ swNow - meta[i].mtime > FILE_EXPIRY_MS)
                => i \in SwAttempted

\* C18: no permanent poison state in the scheduler.  A file whose deletion
\* fails stays in the directory and is counted as an error of that sweep;
\* every following sweep lists it and tries it again; and a regular file
\* that is not locked is eventually deleted, as long as the scheduler is
\* not stopped.
C18_NoPoisonState ==
    /\ []SweepAccounts
    /\ \A i \in 1..MaxEntries :
          (meta[i].kind = "file" /\ meta[i].lock = "free"
              /\ EntryName(i) \in dir)
             ~> (EntryName(i) \notin dir \/ schedPc = "stopped")

\* C18 witness: the only regular file of the directory was counted as an
\* error by the sweep before, and the sweep now running has deleted it.
C18_Witness ==
    /\ swOp = "sweep"
    /\ swPc = "loop"
    /\ swResult = SweepResult("sweep", 0, 1)
    /\ Cardinality({i \in Slots : meta[i].kind = "file"}) = 1
    /\ \E k \in SwLogIdx :
          /\ swLog[k].deleted = "true"
          /\ EntryName(swLog[k].slot) \notin dir

\* C19: when the uploads directory does not exist, cleanupExpiredFiles and
\* clearAllUploads return zero deleted and zero errors, try no file, and
\* leave the directory missing.
C19_MissingDirIsZeroFiles ==
    /\ [](~upExists =>
             /\ dir = {}
             /\ swLog = <<>>
             /\ swResult \in {NoResult, SweepResult("sweep", 0, 0),
                              SweepResult("wipe", 0, 0)}
             /\ (swPc = "idle" /\ swOp # "none") =>
                   swResult = SweepResult(swOp, 0, 0))
    /\ [][~upExists => (~upExists' /\ dir' = {})]_vars

\* C19 witness: without a directory, clearAllUploads has returned and after
\* it the first cleanupExpiredFiles.
C19_Witness ==
    /\ ~upExists
    /\ disableLimits
    /\ schedPc = "running"
    /\ swPc = "idle"
    /\ swResult = SweepResult("sweep", 0, 0)

\* C20: clearAllUploads applies safeUnlink to every regular file of the
\* directory whatever its age, and neither it nor cleanupExpiredFiles ever
\* applies it to a subdirectory: subdirectories stay.
C20_WipeAllFilesNeverDirs ==
    /\ \A k \in SwLogIdx : meta[swLog[k].slot].kind = "file"
    /\ \A i \in Slots : meta[i].kind = "dir" => EntryName(i) \in dir
    /\ swOp = "wipe" =>
          \A i \in SwVisited :
             meta[i].kind = "file" =>
                /\ i \in SwAttempted
                /\ (meta[i].lock = "free"
                       /\ \A k \in SwLogIdx :
                             swLog[k].slot = i => swLog[k].deleted = "true") =>
                      EntryName(i) \notin dir

\* C20 witness: clearAllUploads has returned; it deleted a file aged 9
\* minutes and passed a subdirectory.
C20_Witness ==
    /\ swOp = "wipe"
    /\ swPc = "idle"
    /\ swResult.op = "wipe"
    /\ \E k \in SwLogIdx :
          swLog[k].age = 9 * Minute /\ swLog[k].deleted = "true"
    /\ \E i \in SwVisited : meta[i].kind = "dir"

\* a call of cleanupExpiredFiles or clearAllUploads begins in this step
CallBegins == swPc = "idle" /\ swPc' = "access"

\* C21: at startup clearAllUploads runs only when DISABLE_LIMITS is set and
\* has returned before the scheduler starts; starting the scheduler begins
\* one sweep at once and sets the timer; after that a sweep begins only
\* when the timer fires, one interval later, and the timer stays set until
\* the stop function is called, after which no sweep begins.
C21_StartupOrderAndTicks ==
    /\ [](swOp = "wipe" => (disableLimits /\ schedPc = "wiped"))
    /\ [](schedPc = "running" => timerArmed)
    /\ [](schedPc = "stopped" => ~timerArmed)
    /\ [][(schedPc # "running" /\ schedPc' = "running") =>
             /\ swPc = "idle"
             /\ disableLimits => swResult.op = "wipe"
             /\ CallBegins /\ swOp' = "sweep"]_vars
    /\ [][(CallBegins /\ schedPc = "running") =>
             /\ schedPc' = "running"
             /\ swOp' = "sweep"
             /\ clock' = Min(NextTick(clock), Horizon)]_vars
    /\ [][schedPc = "stopped" => (schedPc' = "stopped" /\ ~CallBegins)]_vars

\* C21 witness: with limits disabled the server wiped, started the
\* scheduler, swept again at a tick and was then stopped.
C21_Witness ==
    /\ disableLimits
    /\ schedPc = "stopped"
    /\ swPc = "idle"
    /\ swResult.op = "sweep"
    /\ clock >= StartTime + CLEANUP_INTERVAL_MS

(***************************************************************************)
(* Specification SpecRace: two requests of the one server process, each    *)
(* for an upload whose original name is a.*, both asking for format gif:   *)
(* POST /images with formats ['gif'] or POST /video with format 'gif'.     *)
(* Every await yields to the other request.  rqOwner records whose         *)
(* artifact a filename of the directory holds, 0 for files that were       *)
(* there before.                                                           *)
(***************************************************************************)
Requests == {1, 2}

RaceKinds == {"image", "video"}

\* "corrupt": the encoder (sharp or ffmpeg) fails on the upload
RaceFaults == {"none", "corrupt"}

RaceBase == <<"a">>

RaceFormat == "gif"

RaceNames == {PlainName(RaceBase, RaceFormat),
              CounterName(RaceBase, 1, RaceFormat)}

\* the file now holds the artifact of request r
OwnedBy(owner, name, r) ==
    [n \in (DOMAIN owner) \cup {name} |-> IF n = name THEN r ELSE owner[n]]

\* the file is gone
Disowned(owner, name) == [n \in (DOMAIN owner) \ {name} |-> owner[n]]

RaceInit ==
    /\ dir \in SUBSET RaceNames
    /\ rqKind \in [Requests -> RaceKinds]
    /\ rqFault \in [Requests -> RaceFaults]
    /\ rqPc = [r \in Requests |-> "start"]
    /\ rqName = [r \in Requests |-> <<>>]
    /\ rqOwner = [n \in dir |-> 0]
    /\ GufIdle
    /\ ImgIdle
    /\ VidIdle
    /\ DelIdle
    /\ SweepIdle
    /\ ArchIdle
    /\ EntryIdle
    /\ SavIdle
    /\ QueIdle

raceConst == <<rqKind, rqFault, gufVars, imgVars, vidVars, delVars, sweepVars,
              archVars, entryVars, savVars, queVars>>

\* outputFilename = await getUniqueFilename(dir, baseFilename, format)
RqAllocate(r) ==
    /\ rqPc[r] = "start"
    /\ rqName' = [rqName EXCEPT ![r] = getUniqueFilename(dir, RaceBase,
                                                         RaceFormat)]
    /\ rqPc' = [rqPc EXCEPT ![r] = "allocated"]
    /\ UNCHANGED <<dir, rqOwner, raceConst>>

\* await processor.toFile(outputPath), or ffmpeg -y ... outputPath ending
\* with 'end': the file is created, or replaced if it is there
RqWrite(r) ==
    /\ rqPc[r] = "allocated"
    /\ rqFault[r] = "none"
    /\ dir' = dir \cup {rqName[r]}
    /\ rqOwner' = OwnedBy(rqOwner, rqName[r], r)
    /\ rqPc' = [rqPc EXCEPT ![r] = "done"]
    /\ UNCHANGED <<rqName, raceConst>>

\* sharp throws: the catch of the file pushes the error result
RqImageError(r) ==
    /\ rqPc[r] = "allocated"
    /\ rqFault[r] = "corrupt"
    /\ rqKind[r] = "image"
    /\ rqPc' = [rqPc EXCEPT ![r] = "done"]
    /\ UNCHANGED <<dir, rqName, rqOwner, raceConst>>

\* ffmpeg 'error': fs.unlink(normalizedOutputPath), reject(error)
RqVideoError(r) ==
    /\ rqPc[r] = "allocated"
    /\ rqFault[r] = "corrupt"
    /\ rqKind[r] = "video"
    /\ dir' = dir \ {rqName[r]}
    /\ rqOwner' = Disowned(rqOwner, rqName[r])
    /\ rqPc' = [rqPc EXCEPT ![r] = "done"]
    /\ UNCHANGED <<rqName, raceConst>>

RaceNext ==
    \E r \in Requests :
       \/ RqAllocate(r)
       \/ RqWrite(r)
       \/ RqImageError(r)
       \/ RqVideoError(r)

SpecRace == RaceInit /\ [][RaceNext]_vars

\* C12: over any interleaving of image and video requests, no two
\* artifacts are written to the same filename while the first exists: the
\* artifact a request has produced is in the directory under the name the
\* request reports, and is still its own.
C12_ArtifactNotClobbered ==
    \A r \in Requests :
       (rqPc[r] = "done" /\ rqFault[r] = "none") =>
          /\ rqName[r] \in dir
          /\ rqOwner[rqName[r]] = r

(***************************************************************************)
(* Specification SpecArchive: one POST /archive request, with              *)
(* createArchive of archiver.js.  A requested name is a sequence of        *)
(* tokens, "/" separating its segments.  isPathTraversalSafe and           *)
(* isWithinDirectory are imported from utils/security.js.                  *)
(***************************************************************************)
MaxRequested == 2

ArchiveName == <<"archive", "-", "1", ".", "zip">>

ArtifactA == <<"a", ".", "webp">>

ArtifactB == <<"b", ".", "webp">>

RequestNames ==
    { ArtifactA, ArtifactB,
      <<"..", "/", "..", "/", "etc", "/", "passwd">>,
      <<"sub", "/", "..", "/", "a", ".", "webp">>,
      <<"sub", "/", "a", ".", "webp">> }

RequestLists ==
    UNION { [1..n -> RequestNames] : n \in 0..MaxRequested }

\* the name holds no path-traversal sequence
isPathTraversalSafe(filename) ==
    \A k \in 1..Len(filename) : filename[k] # ".."

\* how deep below the directory the first k tokens of the name lead:
\* ".." goes up, the first token of any other segment goes down
RECURSIVE DepthAfter(_, _)
DepthAfter(filename, k) ==
    IF k = 0 THEN 0
    ELSE LET before == DepthAfter(filename, k - 1)
             t == filename[k]
         IN IF t = ".." THEN before - 1
            ELSE IF t # "/" /\ (k = 1 \/ filename[k - 1] = "/")
                 THEN before + 1
            ELSE before

\* path.join(dir, filename) resolves to a place inside dir
isWithinDirectory(filename) ==
    \A k \in 1..Len(filename) : DepthAfter(filename, k) >= 0

\* a variant that leaves the loop at the first name it passes over
StopAfterSkip(i, n) == n + 1

\* `continue`, and the end of the catch of fsPromises.access
NextAfterSkip(i, n) == i + 1

\* a variant that finalizes whatever was added
NeverEmpty(addedFiles) == FALSE

\* if (addedFiles === 0)
HasNoValidFiles(addedFiles) == addedFiles = 0

\* a variant that keeps the archive when the download failed
UnlinksOnlyOnSuccess(err) == ~err

\* the callback of res.download unlinks whether err is set or not
UnlinksAfterDownload(err) == TRUE

ArchInit ==
    /\ dir \in SUBSET {ArtifactA, ArtifactB}
    /\ arFiles \in RequestLists
    /\ arFaults \in [download : BOOLEAN, unlink : BOOLEAN]
    /\ arPc = "route"
    /\ arIdx = 0
    /\ arEntries = <<>>
    /\ arSkipped = <<>>
    /\ arZip = "none"
    /\ arPromise = Outcome("pending", "")
    /\ arResponse = Outcome("none", "")
    /\ arUnlinked = "no"
    /\ GufIdle
    /\ ImgIdle
    /\ VidIdle
    /\ DelIdle
    /\ SweepIdle
    /\ RaceIdle
    /\ EntryIdle
    /\ SavIdle
    /\ QueIdle

archConst == <<arFiles, arFaults, gufVars, imgVars, vidVars, delVars,
               sweepVars, raceVars, entryVars, savVars, queVars>>

\* if (!files || files.length === 0) return res.status(400)...
ArRejectEmpty ==
    /\ arPc = "route"
    /\ Len(arFiles) = 0
    /\ arResponse' = Outcome("400", "No files provided")
    /\ arPc' = "done"
    /\ UNCHANGED <<dir, arIdx, arEntries, arSkipped, arZip, arPromise,
                   arUnlinked, archConst>>

\* createArchive(files): mkdir, createWriteStream(archivePath), pipe
ArOpen ==
    /\ arPc = "route"
    /\ Len(arFiles) > 0
    /\ dir' = dir \cup {ArchiveName}
    /\ arZip' = "open"
    /\ arIdx' = 1
    /\ arPc' = "loop"
    /\ UNCHANGED <<arEntries, arSkipped, arPromise, arResponse, arUnlinked,
                   archConst>>

arName == arFiles[arIdx]

\* !isPathTraversalSafe(filename) or !isWithinDirectory(filePath, UPLOAD_DIR)
ArSkipUnsafe ==
    /\ arPc = "loop"
    /\ arIdx <= Len(arFiles)
    /\ ~isPathTraversalSafe(arName) \/ ~isWithinDirectory(arName)
    /\ arSkipped' = Append(arSkipped, arName)
    /\ arIdx' = NextAfterSkip(arIdx, Len(arFiles))
    /\ UNCHANGED <<dir, arPc, arEntries, arZip, arPromise, arResponse,
                   arUnlinked, archConst>>

\* fsPromises.access(filePath) throws: warn, go on
ArSkipMissing ==
    /\ arPc = "loop"
    /\ arIdx <= Len(arFiles)
    /\ isPathTraversalSafe(arName) /\ isWithinDirectory(arName)
    /\ ~fsAccess(dir, arName)
    /\ arSkipped' = Append(arSkipped, arName)
    /\ arIdx' = NextAfterSkip(arIdx, Len(arFiles))
    /\ UNCHANGED <<dir, arPc, arEntries, arZip, arPromise, arResponse,
                   arUnlinked, archConst>>

\* archive.file(filePath, { name: filename }); addedFiles++
ArAdd ==
    /\ arPc = "loop"
    /\ arIdx <= Len(arFiles)
    /\ isPathTraversalSafe(arName) /\ isWithinDirectory(arName)
    /\ fsAccess(dir, arName)
    /\ arEntries' = Append(arEntries, arName)
    /\ arIdx' = arIdx + 1
    /\ UNCHANGED <<dir, arPc, arSkipped, arZip, arPromise, arResponse,
                   arUnlinked, archConst>>

\* reject(new Error('No valid files to archive')); return
ArNoValidFiles ==
    /\ arPc = "loop"
    /\ arIdx > Len(arFiles)
    /\ HasNoValidFiles(Len(arEntries))
    /\ arPromise' = Outcome("rejected", "No valid files to archive")
    /\ arPc' = "settle"
    /\ UNCHANGED <<dir, arIdx, arEntries, arSkipped, arZip, arResponse,
                   arUnlinked, archConst>>

\* archive.finalize(); output 'close': resolve(archivePath)
ArFinalize ==
    /\ arPc = "loop"
    /\ arIdx > Len(arFiles)
    /\ ~HasNoValidFiles(Len(arEntries))
    /\ arZip' = "finalized"
    /\ arPromise' = Outcome("resolved", "")
    /\ arPc' = "settle"
    /\ UNCHANGED <<dir, arIdx, arEntries, arSkipped, arResponse, arUnlinked,
                   archConst>>

\* catch of the route: res.status(500).json({ error, message })
ArRespondError ==
    /\ arPc = "settle"
    /\ arPromise.state = "rejected"
    /\ arResponse' = Outcome("500", arPromise.message)
    /\ arPc' = "done"
    /\ UNCHANGED <<dir, arIdx, arEntries, arSkipped, arZip, arPromise,
                   arUnlinked, archConst>>

\* res.download(archivePath, 'processed-files.zip', callback): the
\* callback runs with or without err
ArDownload ==
    /\ arPc = "settle"
    /\ arPromise.state = "resolved"
    /\ arResponse' = Outcome("download",
                             IF arFaults.download THEN "error" ELSE "sent")
    /\ arPc' = "cleanup"
    /\ UNCHANGED <<dir, arIdx, arEntries, arSkipped, arZip, arPromise,
                   arUnlinked, archConst>>

\* try { await fs.unlink(archivePath) } catch (cleanupError) { log }
ArCleanup ==
    /\ arPc = "cleanup"
    /\ LET tries == UnlinksAfterDownload(arFaults.download)
           deleted == tries /\ ~arFaults.unlink
       IN
       /\ dir' = IF deleted THEN dir \ {ArchiveName} ELSE dir
       /\ arUnlinked' = IF ~tries THEN "no"
                        ELSE IF deleted THEN "deleted" ELSE "failed"
    /\ arPc' = "done"
    /\ UNCHANGED <<arIdx, arEntries, arSkipped, arZip, arPromise, arResponse,
                   archConst>>

ArchNext ==
    \/ ArRejectEmpty
    \/ ArOpen
    \/ ArSkipUnsafe
    \/ ArSkipMissing
    \/ ArAdd
    \/ ArNoValidFiles
    \/ ArFinalize
    \/ ArRespondError
    \/ ArDownload
    \/ ArCleanup

SpecArchive == ArchInit /\ [][ArchNext]_vars

\* the requested name is one the documentation lets into the archive: no
\* ".." in it, no way out of the directory, and a file of that name exists
Includable(filename) ==
    /\ \A k \in 1..Len(filename) : filename[k] # ".."
    /\ filename \in dir

RECURSIVE IncludableOf(_)
IncludableOf(list) ==
    IF list = <<>> THEN <<>>
    ELSE IF Includable(Head(list))
         THEN <<Head(list)>> \o IncludableOf(Tail(list))
    ELSE IncludableOf(Tail(list))

LoopEnded == arPc \in {"settle", "download", "cleanup", "done"} /\ arZip # "none"

\* C22: createArchive passes over, without aborting, every requested name
\* that holds a path-traversal sequence, resolves outside the directory or
\* does not exist, and the archive holds exactly the other requested names.
C22_ArchiveHoldsSafeExisting ==
    /\ arPc = "loop" =>
          Len(arEntries) + Len(arSkipped) = Min(arIdx, Len(arFiles) + 1) - 1
    /\ LoopEnded =>
          /\ arEntries = IncludableOf(arFiles)
          /\ Len(arEntries) + Len(arSkipped) = Len(arFiles)

\* C22 witness: ['a.webp', '../../etc/passwd'] with only a.webp on disk
\* gave a finalized archive holding a.webp alone.
C22_Witness ==
    /\ arFiles = <<ArtifactA, <<"..", "/", "..", "/", "etc", "/", "passwd">>>>
    /\ ArtifactB \notin dir
    /\ arZip = "finalized"
    /\ arEntries = <<ArtifactA>>

\* C23: when none of the requested names can be included, createArchive
\* rejects with 'No valid files to archive', the route answers 500 with
\* that message, and no archive is finalized or handed out; an archive
\* that is finalized holds at least one entry.
C23_NoValidFilesIsFatal ==
    /\ (LoopEnded /\ IncludableOf(arFiles) = <<>>) =>
          /\ arPromise = Outcome("rejected", "No valid files to archive")
          /\ arZip # "finalized"
          /\ arPc = "done" =>
                arResponse = Outcome("500", "No valid files to archive")
    /\ arZip = "finalized" => Len(arEntries) > 0
    /\ arResponse.state = "download" => arZip = "finalized"

\* C23 witness: an unsafe name and a missing one were requested, and the
\* route answered 500.
C23_Witness ==
    /\ arPc = "done"
    /\ Len(arFiles) = 2
    /\ ~isPathTraversalSafe(arFiles[1])
    /\ arFiles[2] = ArtifactB
    /\ ArtifactB \notin dir
    /\ arResponse.state = "500"

\* C24: archives are single-use: once res.download has called back, with
\* or without an error, the route unlinks the archive, and a failure of
\* that unlink changes nothing in the answer.
C24_ArchiveDeletedAfterDelivery ==
    (arPc = "done" /\ arPromise.state = "resolved") =>
       /\ arUnlinked # "no"
       /\ arUnlinked = "deleted" <=> ArchiveName \notin dir
       /\ arFaults.unlink <=> arUnlinked = "failed"
       /\ arResponse =
             Outcome("download", IF arFaults.download THEN "error" ELSE "sent")

\* C24 witness: the download failed and the unlink after it failed too.
C24_Witness ==
    /\ arPc = "done"
    /\ arResponse = Outcome("download", "error")
    /\ arUnlinked = "failed"
    /\ ArchiveName \in dir


\* C37: when createArchive fails because no requested file could be
\* included, it leaves no archive file behind: the directory holds the same
\* files after the failed call as before it.
C37_FailedArchiveLeavesNothing ==
    (arPromise.state = "rejected" /\ Len(arEntries) = 0) =>
       /\ ArchiveName \notin dir
       /\ dir \subseteq {ArtifactA, ArtifactB}

(***************************************************************************)
(* Specification SpecEntry: one request to POST /images or POST /video     *)
(* from the route handler on: JSON.parse of the options field, the check   *)
(* for uploaded files, then processImages or processVideo as above.        *)
(***************************************************************************)
Bodies == {"absent", "valid", "malformed", "null"}

\* JSON.parse(req.body.options || '{}') throws a SyntaxError
ParseThrows(body) == body = "malformed"

\* the destructuring of `options` throws a TypeError: JSON.parse gave null
DestructuringThrows(body) == body = "null"

\* !files || files.length === 0
NeverNoFiles(fs) == FALSE

NoFilesUploaded(fs) == Len(fs) = 0

\* the default of an absent `formats`
DefaultFormats == <<"webp">>

\* the defaults of processVideo, the bitrate '2M' as parseInt reads it
DefaultVideoOptions ==
    [format |-> "mp4", bitrate |-> 2, preset |-> "web", audio |-> TRUE]

EntryBatches ==
    UNION { [1..n -> ImageNames \X {"none"}] : n \in 0..MaxFiles }

EntryImagesInit ==
    /\ enBody \in Bodies
    /\ files \in { [i \in 1..Len(b) |-> Upload(i, b[i])] : b \in EntryBatches }
    /\ formats = IF enBody = "valid" THEN <<"webp", "svg">> ELSE DefaultFormats
    /\ useImageMagick \in BOOLEAN
    /\ dir = { files[i].path : i \in 1..Len(files) }
    /\ pc = "parse"
    /\ step = "stat"
    /\ rasterFiles = <<>>
    /\ fileIdx = 0
    /\ fmtIdx = 1
    /\ processedFiles = <<>>
    /\ results = <<>>
    /\ log = <<>>
    /\ probes = 0
    /\ VidIdle

EntryVideoInit ==
    /\ enBody \in Bodies
    /\ vFile \in VideoUploads \cup {NoFile}
    /\ vOptions \in IF enBody = "valid"
                    THEN {o \in VideoOptions : o.bitrate = 2 /\ o.preset = "web"}
                    ELSE {DefaultVideoOptions}
    /\ dir = IF vFile.fault \notin {"nofile", "missing"} THEN {vFile.path}
             ELSE {}
    /\ vPc = "parse"
    /\ vOutputFilename = NoValue
    /\ vCommand = NoValue
    /\ vPromise = "pending"
    /\ vResult = NoValue
    /\ vResponse = NoValue
    /\ ImgIdle

EntryInit ==
    /\ EntryImagesInit \/ EntryVideoInit
    /\ enResponse = Status(0)
    /\ GufIdle
    /\ DelIdle
    /\ SweepIdle
    /\ RaceIdle
    /\ ArchIdle
    /\ SavIdle
    /\ QueIdle

entryConst == <<enBody, gufVars, delVars, sweepVars, raceVars, archVars,
                savVars, queVars>>

\* POST /images: const options = JSON.parse(...); in the catch, status 500
EnImagesParse ==
    /\ pc = "parse"
    /\ IF ParseThrows(enBody)
       THEN pc' = "rejected" /\ enResponse' = Status(500)
       ELSE pc' = "check" /\ UNCHANGED enResponse
    /\ UNCHANGED <<dir, files, formats, useImageMagick, step, rasterFiles,
                   fileIdx, fmtIdx, processedFiles, results, log, probes,
                   vidVars, entryConst>>

\* if (!files || files.length === 0) return res.status(400); otherwise
\* processImages(files, options), which starts with the destructuring
EnImagesCall ==
    /\ pc = "check"
    /\ IF NoFilesUploaded(files)
       THEN pc' = "rejected" /\ enResponse' = Status(400)
       ELSE IF DestructuringThrows(enBody)
       THEN pc' = "rejected" /\ enResponse' = Status(500)
       ELSE pc' = "start" /\ UNCHANGED enResponse
    /\ UNCHANGED <<dir, files, formats, useImageMagick, step, rasterFiles,
                   fileIdx, fmtIdx, processedFiles, results, log, probes,
                   vidVars, entryConst>>

\* res.json({ success: true, results })
EnImagesRespond ==
    /\ pc = "done"
    /\ pc' = "responded"
    /\ enResponse' = [status |-> 200, body |-> results]
    /\ UNCHANGED <<dir, files, formats, useImageMagick, step, rasterFiles,
                   fileIdx, fmtIdx, processedFiles, results, log, probes,
                   vidVars, entryConst>>

\* POST /video: const options = JSON.parse(...); with a file and options
\* null, processVideo throws in its destructuring and the catch answers 500
EnVideoParse ==
    /\ vPc = "parse"
    /\ IF ParseThrows(enBody) \/ (vFile # NoFile /\ DestructuringThrows(enBody))
       THEN vPc' = "responded" /\ vResponse' = Status(500)
       ELSE vPc' = "route" /\ UNCHANGED vResponse
    /\ UNCHANGED <<dir, vFile, vOptions, vOutputFilename, vCommand, vPromise,
                   vResult, imgVars, enResponse, entryConst>>

EntryNext ==
    \/ EnImagesParse \/ EnImagesCall \/ EnImagesRespond \/ EnVideoParse
    \/ ImgNext
    \/ VidNext

SpecEntry == EntryInit /\ [][EntryNext]_vars


\* the uploads of the request, as multer stored them
UploadedSources ==
    IF pc # "idle" THEN { files[i].path : i \in 1..Len(files) }
    ELSE IF vFile.fault \in {"nofile", "missing"} THEN {}
    ELSE {vFile.path}

\* the request carries no file, or options that do not parse to an object
ImagesInvalid ==
    pc # "idle" /\ (Len(files) = 0 \/ enBody \in {"malformed", "null"})

VideoInvalid ==
    vPc # "idle" /\ (vFile = NoFile \/ enBody \in {"malformed", "null"})

\* C31: validation errors (missing or empty file list, malformed options)
\* are rejected at the entry boundary before any processing begins: no
\* encoder is invoked and no uploaded source is deleted for such a request,
\* and it is answered with an error status.
C31_RejectedBeforeProcessing ==
    /\ ImagesInvalid =>
          /\ pc \in {"parse", "check", "rejected"}
          /\ log = <<>>
          /\ results = <<>>
          /\ probes = 0
          /\ dir = UploadedSources
          /\ pc = "rejected" => enResponse.status \in {400, 500}
    /\ VideoInvalid =>
          /\ vPc \in {"parse", "route", "responded"}
          /\ vOutputFilename = NoValue
          /\ vPromise = "pending"
          /\ dir = UploadedSources
          /\ vPc = "responded" => vResponse.status \in {400, 500}

\* a batch of two files with options that are no JSON has been answered
C31_Witness ==
    /\ pc = "rejected"
    /\ enBody = "malformed"
    /\ Len(files) = 2
    /\ enResponse.status = 500


(***************************************************************************)
(* Specification SpecHang: processImages on batches in which an encoder    *)
(* invocation may never settle (fault "hang": sharp's toFile or the        *)
(* convert child process neither resolves nor rejects).  The code sets no  *)
(* timer on either, so while the invocation hangs nothing of the call runs.*)
(***************************************************************************)
HangBatches ==
    UNION { [1..n -> ImageNames \X {"none", "hang"}] : n \in 1..MaxFiles }

HangInit ==
    /\ files \in { [i \in 1..Len(b) |-> Upload(i, b[i])] : b \in HangBatches }
    /\ formats \in {<<"webp">>, <<"webp", "svg">>}
    /\ useImageMagick \in BOOLEAN
    /\ dir = { files[i].path : i \in 1..Len(files) }
    /\ pc = "start"
    /\ step = "stat"
    /\ rasterFiles = <<>>
    /\ fileIdx = 0
    /\ fmtIdx = 1
    /\ processedFiles = <<>>
    /\ results = <<>>
    /\ log = <<>>
    /\ probes = 0
    /\ GufIdle
    /\ VidIdle
    /\ SysIdle

\* the call is awaiting an encoder invocation that never settles
EncoderHangs ==
    /\ pc \in {"svgRaster", "im", "raster"}
    /\ step = "format"
    /\ PhaseList(pc, rasterFiles)[fileIdx].fault = "hang"

\* the continuation of an await runs only when the awaited promise settles
HangNext == ~EncoderHangs /\ ImgNext

SpecHang == HangInit /\ [][HangNext]_vars

\* the event loop runs every continuation that is ready
SpecHangLive == SpecHang /\ WF_vars(HangNext)

\* C32: a hung encoder invocation is bounded by a timeout that becomes an
\* isolated per-file error: every batch eventually returns, with a result
\* for the files after the hung one.
C32_HungEncoderBounded == <>(pc = "done")


(***************************************************************************)
(* Specification SpecSavings: the `savings` field of one ArtifactRecord,   *)
(* from the two sizes the loop has read with fs.stat.                      *)
(***************************************************************************)
\* largest file size, in bytes
MaxSize == 4

Pipelines == {"svgRaster", "svgOpt", "im", "raster", "video"}

\* Number.prototype.toFixed(2) of num / den * 100, in hundredths; den > 0.
\* Halves round away from zero.
ToFixed2(num, den) ==
    IF num >= 0 THEN (2 * num * 10000 + den) \div (2 * den)
    ELSE 0 - ((2 * (0 - num) * 10000 + den) \div (2 * den))

\* ((originalSize - processedSize) / originalSize * 100).toFixed(2)
RawSavings(originalSize, processedSize) ==
    ToFixed2(originalSize - processedSize, originalSize)

\* originalSize > processedSize ? (...).toFixed(2) : '0.00'
ClampedSavings(originalSize, processedSize) ==
    IF originalSize > processedSize
    THEN RawSavings(originalSize, processedSize)
    ELSE 0

\* only the vector-to-raster loop clamps
SavingsOf(pipeline, originalSize, processedSize) ==
    IF pipeline = "svgRaster" THEN ClampedSavings(originalSize, processedSize)
    ELSE RawSavings(originalSize, processedSize)

SavInit ==
    /\ svPipeline \in Pipelines
    /\ svOriginal \in 1..MaxSize
    /\ svProcessed \in 0..MaxSize
    /\ svSavings = 0
    /\ svPc = "stat"
    /\ dir = {}
    /\ GufIdle
    /\ ImgIdle
    /\ VidIdle
    /\ DelIdle
    /\ SweepIdle
    /\ RaceIdle
    /\ ArchIdle
    /\ EntryIdle
    /\ QueIdle

\* const savings = ...; processedFiles.push({ format, filename, size, savings })
SavPush ==
    /\ svPc = "stat"
    /\ svSavings' = SavingsOf(svPipeline, svOriginal, svProcessed)
    /\ svPc' = "pushed"
    /\ UNCHANGED <<dir, svPipeline, svOriginal, svProcessed, gufVars, imgVars,
                   vidVars, delVars, sweepVars, raceVars, archVars, entryVars,
                   queVars>>

SpecSavings == SavInit /\ [][SavPush]_vars

\* C33: for every ArtifactRecord of every pipeline, when the produced file
\* is at least as large as the original the reported savings is not
\* positive and, the clamp being the policy, is exactly '0.00', never
\* negative; when the produced file is smaller, savings is
\* (originalSize - producedSize) / originalSize * 100 to 2 decimals.
C33_SavingsClamped ==
    svPc = "pushed" =>
       IF svProcessed >= svOriginal
       THEN svSavings = 0
       ELSE /\ svSavings > 0
            /\ 2 * svOriginal * svSavings - 20000 * (svOriginal - svProcessed)
                  \in (1 - svOriginal)..svOriginal


(***************************************************************************)
(* Specification SpecInFlight: a batch of POST /images in flight while the *)
(* scheduler runs.  The uploads were stored when the model starts; the     *)
(* interval timer fires while the batch awaits its encoders, and the steps *)
(* of a sweep interleave with the steps of the batch.                      *)
(***************************************************************************)
\* the time multer finished storing the uploads
UploadTime == Horizon - FILE_EXPIRY_MS - Minute

InFlightBatches ==
    UNION { [1..n -> {<<[base |-> <<"a">>, ext |-> ".png"], "none">>}] :
               n \in 1..Min(MaxFiles, MaxEntries) }

InFlightInit ==
    /\ files \in { [i \in 1..Len(b) |-> Upload(i, b[i])] : b \in InFlightBatches }
    /\ formats = DefaultFormats
    /\ useImageMagick = FALSE
    /\ dir = { files[i].path : i \in 1..Len(files) }
    /\ pc = "start"
    /\ step = "stat"
    /\ rasterFiles = <<>>
    /\ fileIdx = 0
    /\ fmtIdx = 1
    /\ processedFiles = <<>>
    /\ results = <<>>
    /\ log = <<>>
    /\ probes = 0
    /\ upExists = TRUE
    /\ meta = [i \in Slots |->
                 IF i <= Len(files)
                 THEN [kind |-> "file", mtime |-> UploadTime, lock |-> "free"]
                 ELSE Absent]
    /\ clock = UploadTime
    /\ disableLimits = FALSE
    /\ schedPc = "running"
    /\ timerArmed = TRUE
    /\ swOp = "none"
    /\ swPc = "idle"
    /\ swNow = 0
    /\ swList = <<>>
    /\ swIdx = 0
    /\ swCleaned = 0
    /\ swErrors = 0
    /\ swResult = NoResult
    /\ swLog = <<>>
    /\ GufIdle
    /\ VidIdle
    /\ DelIdle
    /\ RaceIdle
    /\ ArchIdle
    /\ EntryIdle
    /\ SavIdle
    /\ QueIdle

\* fs.stat(filePath) of the loop body finds the entry
StatSucceeds ==
    IF swPc = "loop" /\ swIdx <= Len(swList)
    THEN EntryName(swSlot) \in dir
    ELSE TRUE

\* a variant whose catch only logs
CatchSwallows(errors) == errors

\* catch (err) { errors++ }
CatchCounts(errors) == errors + 1

\* fs.stat(filePath) throws ENOENT, the entry having gone since readdir:
\* the catch of the loop body counts it and the loop goes on
SweepStatError ==
    /\ swPc = "loop"
    /\ swIdx <= Len(swList)
    /\ EntryName(swSlot) \notin dir
    /\ swErrors' = CatchCounts(swErrors)
    /\ swLog' = Append(swLog, [slot |-> swSlot, age |-> 0,
                               deleted |-> "nostat"])
    /\ swIdx' = swIdx + 1
    /\ UNCHANGED <<dir, meta, clock, schedPc, timerArmed, swOp, swPc, swNow,
                   swList, swCleaned, swResult, sweepConst>>

InFlightNext ==
    \/ SchedTick \/ SweepList \/ SweepReturn \/ SweepStatError
    \/ StatSucceeds /\ SweepKeepYoung
    \/ StatSucceeds /\ SweepUnlink
    \/ ImgPartition \/ RasterStat \/ RasterFormat \/ RasterFinish \/ ImgReturn

SpecInFlight == InFlightInit /\ [][InFlightNext]_vars

\* the uploads of the batch no result has been pushed for
Unfinished == {i \in 1..Len(files) : ResultsOf(i) = {}}

\* C35: under any interleaving of the periodic sweep with an in-flight
\* batch, the scheduler never deletes an uploaded source the orchestrator
\* has not finished processing: whenever an encoder is about to read a
\* source, that source still exists.
C35_SweepSparesInFlight ==
    /\ \A i \in Unfinished : files[i].path \in dir
    /\ (pc = "raster" /\ step = "format") =>
          rasterFiles[fileIdx].path \in dir


(***************************************************************************)
(* Specification SpecSweepFaults: the scheduler's sweeps over a directory  *)
(* that requests delete files from while a sweep is between readdir and    *)
(* the fs.stat of an entry.                                                *)
(***************************************************************************)
SweepFaultsInit ==
    /\ SweepInit
    /\ upExists
    /\ ~disableLimits

\* a request deletes a file of the directory: safeUnlink(file.path) of a
\* batch, fs.unlink(archivePath) after a download
Vanish ==
    /\ \E i \in Slots :
          /\ meta[i].kind = "file"
          /\ EntryName(i) \in dir
          /\ dir' = dir \ {EntryName(i)}
    /\ UNCHANGED <<meta, clock, schedPc, timerArmed, swOp, swPc, swNow, swList,
                   swIdx, swCleaned, swErrors, swResult, swLog, sweepConst>>

SweepFaultsNext ==
    \/ SchedStart \/ SchedTick \/ SweepList \/ SweepReturn \/ SweepStatError
    \/ StatSucceeds /\ SweepSkipDir
    \/ StatSucceeds /\ SweepKeepYoung
    \/ StatSucceeds /\ SweepUnlink
    \/ Vanish

SpecSweepFaults == SweepFaultsInit /\ [][SweepFaultsNext]_vars

MaxAdded == 3
OptionValues == {"lossless", "resized"}

\* the indices of a queue
Indices(fs) == 0..(Len(fs) - 1)

\* the effect that saves the session: skipped when limits are disabled
SaveSession(stored, opts) == IF qDisableLimits THEN stored ELSE opts

\* the updater of setFileOptions in handleRemoveFile: delete the entry of
\* index, then move every entry above index one down
Reindexed(opts, index) ==
    LET modeOptions == DOMAIN opts \ {index}
        NewKey(oldIndex) == IF oldIndex > index THEN oldIndex - 1
                            ELSE oldIndex
    IN  [k \in {NewKey(oldIndex) : oldIndex \in modeOptions} |->
            IF k >= index THEN opts[k + 1] ELSE opts[k]]

\* prev[mode].filter((_, i) => i !== index)
Filtered(fs, index) ==
    [n \in 1..(Len(fs) - (IF index \in Indices(fs) THEN 1 ELSE 0)) |->
        IF n - 1 < index THEN fs[n] ELSE fs[n + 1]]

QueInit ==
    /\ qFiles = <<>>
    /\ qOptions = NoOptions
    /\ qStored = NoOptions
    /\ qDisableLimits \in BOOLEAN
    /\ qAdded = 0
    /\ qOp = [op |-> "mount", index |-> 0]
    /\ qBefore = [files |-> <<>>, options |-> NoOptions]
    /\ qSent = <<>>
    /\ dir = {}
    /\ GufIdle
    /\ ImgIdle
    /\ VidIdle
    /\ DelIdle
    /\ SweepIdle
    /\ RaceIdle
    /\ ArchIdle
    /\ EntryIdle
    /\ SavIdle

queConst == <<dir, qDisableLimits, gufVars, imgVars, vidVars, delVars,
              sweepVars, raceVars, archVars, entryVars, savVars>>

QueStep(op, index) ==
    /\ qOp' = [op |-> op, index |-> index]
    /\ qBefore' = [files |-> qFiles, options |-> qOptions]

\* the page is loaded again: the queue starts empty and the effect of the
\* mount restores fileOptions from the saved session
QueMount ==
    /\ qFiles' = <<>>
    /\ qOptions' = IF qDisableLimits THEN NoOptions ELSE qStored
    /\ qStored' = IF qDisableLimits THEN NoOptions ELSE qStored
    /\ qSent' = <<>>
    /\ QueStep("mount", 0)
    /\ UNCHANGED <<qAdded, queConst>>

\* handleFilesAdded with one accepted file
HandleFilesAdded ==
    /\ qAdded < MaxAdded
    /\ qAdded' = qAdded + 1
    /\ qFiles' = Append(qFiles, qAdded + 1)
    /\ QueStep("add", 0)
    /\ UNCHANGED <<qOptions, qStored, qSent, queConst>>

\* handleFileOptionsChange(fileIndex, newOptions), from the options dialog
\* of a queued file
HandleFileOptionsChange ==
    \E fileIndex \in Indices(qFiles), newOptions \in OptionValues :
        /\ qOptions' = [k \in DOMAIN qOptions \cup {fileIndex} |->
                           IF k = fileIndex THEN newOptions ELSE qOptions[k]]
        /\ qStored' = SaveSession(qStored, qOptions')
        /\ QueStep("options", fileIndex)
        /\ UNCHANGED <<qFiles, qAdded, qSent, queConst>>

\* handleRemoveFile(index), from the remove button of a queued file
HandleRemoveFile ==
    \E index \in Indices(qFiles) :
        /\ qFiles' = Filtered(qFiles, index)
        /\ qOptions' = Reindexed(qOptions, index)
        /\ qStored' = SaveSession(qStored, qOptions')
        /\ QueStep("remove", index)
        /\ UNCHANGED <<qAdded, qSent, queConst>>

\* handleClear
HandleClear ==
    /\ Len(qFiles) > 0
    /\ qFiles' = <<>>
    /\ qOptions' = NoOptions
    /\ qStored' = SaveSession(qStored, qOptions')
    /\ qSent' = <<>>
    /\ QueStep("clear", 0)
    /\ UNCHANGED <<qAdded, queConst>>

\* handleProcess, images: what is sent for the file at each index
HandleProcess ==
    /\ Len(qFiles) > 0
    /\ qSent' = [n \in 1..Len(qFiles) |->
                    [file |-> qFiles[n],
                     options |-> IF (n - 1) \in DOMAIN qOptions
                                 THEN qOptions[n - 1] ELSE "defaults"]]
    /\ QueStep("process", 0)
    /\ UNCHANGED <<qFiles, qOptions, qStored, qAdded, queConst>>

QueNext ==
    \/ QueMount
    \/ HandleFilesAdded
    \/ HandleFileOptionsChange
    \/ HandleRemoveFile
    \/ HandleClear
    \/ HandleProcess

SpecQueue == QueInit /\ [][QueNext]_vars

\* the index a remaining file had before the removal of `index`
OldIndex(n, index) == IF n < index THEN n ELSE n + 1

\* C40: per-file custom options stay attached to their file across
\* removals: after handleRemoveFile(i) every remaining file has the custom
\* options (or the absence of them) it had before, the options of the
\* removed file are gone, and no entry of fileOptions has an index outside
\* the queue.
C40_OptionsFollowFiles ==
    qOp.op = "remove" =>
        /\ \A n \in Indices(qFiles) :
              LET old == OldIndex(n, qOp.index)
              IN  /\ qFiles[n + 1] = qBefore.files[old + 1]
                  /\ (n \in DOMAIN qOptions) <=> (old \in DOMAIN qBefore.options)
                  /\ n \in DOMAIN qOptions =>
                        qOptions[n] = qBefore.options[old]
        /\ DOMAIN qOptions \subseteq Indices(qFiles)

============================================================================
